---- MODULE Spec2Model ----
(***************************************************************************)
(* Model of the turn-taking core of seko99/assistant:                      *)
(*   - SpeechAssistant (src/main.py): the LISTENING -> RECORDING ->        *)
(*     TRANSCRIBING -> SYNTHESIZING loop, run by three kinds of threads:   *)
(*     the audio stream callback, the threading.Timer deadline threads and *)
(*     the processing threads started by _stop_recording_and_process;      *)
(*   - PodcastOrchestrator (src/podcast/orchestrator.py) with its          *)
(*     PodcastSession (src/podcast/session.py): the sequential             *)
(*     opening / rounds / closing run.                                     *)
(* Time is counted in audio block periods: one Tick is the time the sound  *)
(* device needs to fill one block of chunk_size samples.                   *)
(***************************************************************************)
EXTENDS Integers, Sequences, FiniteSets, TLC

\* ------------------------------------------------------------------ bounds
\* Entries into RECORDING explored in one run.
MaxRecordings == 2
\* max_recording_duration (config, main.py:62), in block periods.
MaxRecordingDuration == 2
\* Capacity of the pre-trigger ring buffer, in samples (wake_word.py:32-33).
BufferSize == 1
\* Distinct sample values the audio source cycles through.
NumSampleValues == 2
\* Largest max_rounds of a podcast session.
MaxRounds == 2
\* Largest number of participants with the speaker role.
MaxSpeakers == 2
\* Turns of one podcast in which an existing LLM session yields no reply or
\* the synthesis of the reply yields no audio.
MaxFailedTurns == 1
\* Calls of run_podcast on one orchestrator.
MaxRuns == 2
\* Frames given to one PauseDetector exercised on its own, and the largest
\* energy of a frame.
MaxFrames == 16
MaxEnergy == 2

\* Largest buffer_size of a WakeWordDetector exercised on its own, and the
\* largest number of samples in one frame given to it.
MaxBufferSize == 2
MaxChunk == 3

\* Largest number of results a search provider returns for one query.
MaxResults == 2

\* Largest number of facts in the fact list given to the ContextSplitter.
MaxFacts == 5

\* Method calls made on one object (a PodcastSession, an LLMSession)
\* exercised on its own.
MaxCalls == 4

\* ------------------------------------------------------- program constants
\* min_recording_duration of the pause policy, in block periods
\* (pause_detection.py:22, rounded up from 0.5 s).
MinRecordingDuration == 1
\* self.recording_timer = None (main.py:64): no timer handle stored.
NoTimer == 0
\* self.recording_start_time = None (main.py:63).
NoStartTime == -1
\* calibrate_noise_level collects the first ten frames
\* (pause_detection.py:42).
CalibrationChunks == 10
\* voice_energy_threshold (pause_detection.py:21), in energy steps.
VoiceEnergyThreshold == 1
\* pause_threshold (pause_detection.py:20), in block periods.
PauseThreshold == 1
\* samples_per_second (pause_detection.py:28): frames per block period.
SamplesPerSecond == 5
\* current_speaker: Optional[str] = None (session.py:78): no participant.
NoParticipant == -1

VARIABLES
    \* ---- SpeechAssistant (main.py:51-65)
    state,                  \* self.state
    recording_buffer,       \* self.recording_buffer
    recording_lock,         \* holder of self.recording_lock
    recording_start_time,   \* block periods since the stored start, or NoStartTime
    recording_timer,        \* self.recording_timer: a timer id or NoTimer
    stop_reason,            \* self.stop_reason
    audio_buffer,           \* wake_detector.audio_buffer (deque, maxlen BufferSize)
    timers,                 \* the threading.Timer threads, one per entry into RECORDING
    workers,                \* the live processing threads, in dispatch order
    frame_ready,            \* the sound device has a block to deliver
    next_sample,            \* value of the next sample the source produces
    rec_count,              \* number of entries into RECORDING so far
    dispatched,             \* processing threads started for the latest recording
    expected,               \* snapshot ++ frames delivered to the latest recording
    snapshot,               \* the pre-trigger snapshot of the latest wake detection
    \* ---- PodcastOrchestrator / PodcastSession
    pod,
    \* ---- LLMSession (llm_engine.py:14-81)
    llm,
    \* ---- PauseDetector (pause_detection.py:11-95)
    detector,
    \* ---- WakeWordDetector (wake_word.py:17-109)
    wakeword,
    \* ---- PodcastContextEnricher / ContextSplitter
    ctx

assistant_vars ==
    <<state, recording_buffer, recording_lock, recording_start_time,
      recording_timer, stop_reason, audio_buffer, timers, workers,
      frame_ready, next_sample, rec_count, dispatched, expected, snapshot>>

vars == <<state, recording_buffer, recording_lock, recording_start_time,
          recording_timer, stop_reason, audio_buffer, timers, workers,
          frame_ready, next_sample, rec_count, dispatched, expected, snapshot,
          pod, llm, detector, wakeword, ctx>>

\* The objects exercised on their own, outside the assistant loop and the
\* podcast run.
unit_vars == <<llm, detector, wakeword, ctx>>

\* ------------------------------------------------------------ AssistantState
LISTENING == "listening"
RECORDING == "recording"
TRANSCRIBING == "transcribing"
SYNTHESIZING == "synthesizing"

\* Lock holders.
Free == [kind |-> "free", id |-> 0]
WorkerThread(w) == [kind |-> "worker", id |-> w]
TimerThread(t) == [kind |-> "timer", id |-> t]

TimerIds == 1..MaxRecordings

\* ------------------------------------------------------------ pure helpers
\* str.strip() on a text given as a sequence of characters.
RECURSIVE LStrip(_)
LStrip(s) == IF s # <<>> /\ Head(s) = " " THEN LStrip(Tail(s)) ELSE s

RECURSIVE RStrip(_)
RStrip(s) ==
    IF s # <<>> /\ s[Len(s)] = " " THEN RStrip(SubSeq(s, 1, Len(s) - 1)) ELSE s

Strip(s) == RStrip(LStrip(s))

\* What the whisper engine may produce for a recording: " ".join(segments).
RawTexts == { <<>>, <<" ">>, <<"a">>, <<" ", "a">>, <<"a", " ">> }

\* SpeechRecognizer.transcribe_audio: the joined segments, stripped; "" on an
\* internal error.
TranscribeResults == { Strip(r) : r \in RawTexts } \cup { <<>> }

\* deque(maxlen=BufferSize).extend(chunk): keep the newest BufferSize samples.
DequeExtend(buf, chunk) ==
    LET all == buf \o chunk
    IN  IF Len(all) <= BufferSize THEN all
        ELSE SubSeq(all, Len(all) - BufferSize + 1, Len(all))

\* ------------------------------------------------------------------- Init
\* No podcast orchestrator exists while the assistant loop runs.
PodIdle == [pc |-> "off"]

\* No LLMSession and no PauseDetector is exercised on its own.
LlmIdle == [pc |-> "off"]
DetectorIdle == [pc |-> "off"]
WakeIdle == [pc |-> "off"]
CtxIdle == [pc |-> "off"]
UnitsIdle ==
    /\ llm = LlmIdle /\ detector = DetectorIdle
    /\ wakeword = WakeIdle /\ ctx = CtxIdle

\* The state run() starts the audio stream in (main.py:52-65, main.py:242).
AssistantIdle ==
    /\ state = LISTENING
    /\ recording_buffer = <<>>
    /\ recording_lock = Free
    /\ recording_start_time = NoStartTime
    /\ recording_timer = NoTimer
    /\ stop_reason = "none"
    /\ audio_buffer = <<>>
    /\ timers = [t \in TimerIds |-> "unarmed"]
    /\ workers = <<>>
    /\ frame_ready = FALSE
    /\ next_sample = 0
    /\ rec_count = 0
    /\ dispatched = 0
    /\ expected = <<>>
    /\ snapshot = <<>>

AssistantInit == AssistantIdle /\ pod = PodIdle /\ UnitsIdle

\* ------------------------------------------------------------------ time
\* One block period passes: the device has a new block and the stored start
\* time is one period older (ages past the deadline are not told apart).
Tick ==
    /\ UNCHANGED <<pod, unit_vars>>
    /\ \/ ~frame_ready
       \/ recording_start_time \notin {NoStartTime, MaxRecordingDuration}
    /\ frame_ready' = TRUE
    /\ recording_start_time' =
          IF recording_start_time = NoStartTime
             \/ recording_start_time >= MaxRecordingDuration
          THEN recording_start_time
          ELSE recording_start_time + 1
    /\ UNCHANGED <<state, recording_buffer, recording_lock, recording_timer,
                   stop_reason, audio_buffer, timers, workers, next_sample,
                   rec_count, dispatched, expected, snapshot>>

\* ------------------------------------------------- SpeechAssistant methods
\* threading.Timer.cancel(): sets the finished event, so a timer thread that
\* is still waiting ends without calling its function; a thread that has
\* already passed its check of that event is not affected.
Cancel(tm, t) ==
    IF t # NoTimer /\ tm[t] = "waiting" THEN [tm EXCEPT ![t] = "done"] ELSE tm

\* A recording that starts empty whatever the pre-trigger audio is.
StartRecordingUnseeded(pre_trigger_audio) ==
    /\ state' = RECORDING
    /\ stop_reason' = "none"
    /\ recording_buffer' = <<>>
    /\ recording_start_time' = 0
    /\ timers' = [Cancel(timers, recording_timer) EXCEPT
                     ![rec_count + 1] = "waiting"]
    /\ recording_timer' = rec_count + 1
    /\ rec_count' = rec_count + 1
    /\ dispatched' = 0
    /\ expected' = pre_trigger_audio
    /\ snapshot' = pre_trigger_audio

\* A recording that starts without arming a deadline timer.
StartRecordingNoTimer(pre_trigger_audio) ==
    /\ state' = RECORDING
    /\ stop_reason' = "none"
    /\ recording_buffer' = pre_trigger_audio
    /\ recording_start_time' = 0
    /\ timers' = Cancel(timers, recording_timer)
    /\ recording_timer' = NoTimer
    /\ rec_count' = rec_count + 1
    /\ dispatched' = 0
    /\ expected' = pre_trigger_audio
    /\ snapshot' = pre_trigger_audio

\* _start_recording(pre_trigger_audio), main.py:132-159.
StartRecording(pre_trigger_audio) ==
    /\ state' = RECORDING
    /\ stop_reason' = "none"
    /\ recording_buffer' = pre_trigger_audio
    /\ recording_start_time' = 0
    /\ timers' = [Cancel(timers, recording_timer) EXCEPT
                     ![rec_count + 1] = "waiting"]
    /\ recording_timer' = rec_count + 1
    /\ rec_count' = rec_count + 1
    /\ dispatched' = 0
    /\ expected' = pre_trigger_audio
    /\ snapshot' = pre_trigger_audio

\* The thread started at main.py:183-188 with target _process_recording: pc is
\* the line it executes next, audio its argument audio_data, text its local
\* variable, synth the number of its calls of the synthesizer, cycle the
\* branch it took, sent what the latest recording had received when the
\* buffer was copied.
NewWorker(audio_data, sent) ==
    [pc |-> "l193", audio |-> audio_data, text |-> <<>>, synth |-> 0,
     cycle |-> "pending", sent |-> sent]

\* _stop_recording_and_process() as called from the frame callback, which holds
\* the lock (main.py:161-188); buf is the buffer after the frame was appended.
StopRecordingAndProcess(buf, sent) ==
    /\ state' = TRANSCRIBING
    /\ workers' = Append(workers, NewWorker(buf, sent))
    /\ dispatched' = dispatched + 1

\* A reset that cancels the timer and keeps its handle and the start time.
ResetToListeningKeepHandle ==
    /\ timers' = Cancel(timers, recording_timer)
    /\ recording_timer' = recording_timer
    /\ state' = LISTENING
    /\ recording_buffer' = <<>>
    /\ recording_start_time' = recording_start_time
    /\ expected' = <<>>
    /\ snapshot' = <<>>

\* _reset_to_listening() body, main.py:224-231.  The recording in progress,
\* if any, is discarded, so nothing is expected of it any more.
ResetToListening ==
    /\ timers' = Cancel(timers, recording_timer)
    /\ recording_timer' = NoTimer
    /\ state' = LISTENING
    /\ recording_buffer' = <<>>
    /\ recording_start_time' = NoStartTime
    /\ expected' = <<>>
    /\ snapshot' = <<>>

\* ---------------------------------------------------- audio stream callback
\* audio_callback (main.py:83-130): the callback takes the lock, runs its body
\* and releases the lock.  The status early return (main.py:85-87) touches
\* nothing.
\* wake: the Vosk engine finalized a fragment containing a keyword;
\* pause: PauseDetector.should_stop_recording returned True for this frame,
\*        which it does only from min_recording_duration on.
AudioCallbackBody(wake, pause) ==
    LET chunk == <<next_sample>>
        duration == recording_start_time
    IN
    /\ frame_ready
    /\ recording_lock = Free
    /\ frame_ready' = FALSE
    /\ next_sample' = (next_sample + 1) % NumSampleValues
    /\ recording_lock' = Free
    /\ IF state = LISTENING
       THEN /\ audio_buffer' = DequeExtend(audio_buffer, chunk)
            /\ ~pause
            /\ IF wake
               THEN /\ rec_count < MaxRecordings
                    /\ StartRecording(audio_buffer')
                    /\ UNCHANGED workers
               ELSE UNCHANGED <<state, recording_buffer, recording_start_time,
                                recording_timer, stop_reason, timers, workers,
                                rec_count, dispatched, expected, snapshot>>
       ELSE IF state = RECORDING
       THEN /\ ~wake
            /\ recording_buffer' = recording_buffer \o chunk
            /\ expected' = expected \o chunk
            /\ pause => (recording_start_time # NoStartTime
                         /\ duration >= MinRecordingDuration)
            /\ IF recording_start_time # NoStartTime /\ pause
               THEN /\ stop_reason' = "pause"
                    /\ StopRecordingAndProcess(recording_buffer', expected')
               ELSE IF recording_start_time # NoStartTime
                       /\ duration >= MaxRecordingDuration
               THEN /\ stop_reason' = "timeout"
                    /\ StopRecordingAndProcess(recording_buffer', expected')
               ELSE UNCHANGED <<state, stop_reason, workers, dispatched>>
            /\ UNCHANGED <<recording_start_time, recording_timer, audio_buffer,
                           timers, rec_count, snapshot>>
       ELSE /\ ~wake /\ ~pause
            /\ UNCHANGED <<state, recording_buffer, recording_start_time,
                           recording_timer, stop_reason, audio_buffer, timers,
                           workers, rec_count, dispatched, expected, snapshot>>

\* The callback of an assistant whose pause detector is left out: pause is
\* any answer should_stop_recording may give.
AudioCallback(wake, pause) ==
    /\ UNCHANGED <<pod, unit_vars>>
    /\ AudioCallbackBody(wake, pause)

\* ------------------------------------------------------ deadline timer thread
\* threading.Timer.run: the interval of max_recording_duration, started with
\* the recording, is over and the timer was not cancelled, so the lambda of
\* main.py:157 is called; main.py:163-164 reads the state without the lock:
\* `if self.state != RECORDING: return`.
TimerFire(t) ==
    /\ UNCHANGED <<pod, unit_vars>>
    /\ timers[t] = "waiting"
    /\ recording_timer = t
    /\ recording_start_time >= MaxRecordingDuration
    /\ timers' = [timers EXCEPT ![t] =
                     IF state # RECORDING THEN "done" ELSE "l170"]
    /\ UNCHANGED <<state, recording_buffer, recording_lock,
                   recording_start_time, recording_timer, stop_reason,
                   audio_buffer, workers, frame_ready, next_sample, rec_count,
                   dispatched, expected, snapshot>>

\* main.py:170: `self.state = TRANSCRIBING`, without the lock.
TimerSetState(t) ==
    /\ UNCHANGED <<pod, unit_vars>>
    /\ timers[t] = "l170"
    /\ state' = TRANSCRIBING
    /\ timers' = [timers EXCEPT ![t] = "l182"]
    /\ UNCHANGED <<recording_buffer, recording_lock, recording_start_time,
                   recording_timer, stop_reason, audio_buffer, workers,
                   frame_ready, next_sample, rec_count, dispatched, expected,
                   snapshot>>

\* main.py:182-188: copy the buffer and start the processing thread.
TimerDispatch(t) ==
    /\ UNCHANGED <<pod, unit_vars>>
    /\ timers[t] = "l182"
    /\ workers' = Append(workers, NewWorker(recording_buffer, expected))
    /\ timers' = [timers EXCEPT ![t] = "done"]
    /\ dispatched' = IF t = rec_count THEN dispatched + 1 ELSE dispatched
    /\ UNCHANGED <<state, recording_buffer, recording_lock,
                   recording_start_time, recording_timer, stop_reason,
                   audio_buffer, frame_ready, next_sample, rec_count, expected,
                   snapshot>>

\* ------------------------------------------------------- processing thread
\* _process_recording(audio_data), main.py:190-219.
SetWorker(w, rec) == [workers EXCEPT ![w] = rec]

\* The thread has ended and leaves the list of live threads.
RemoveWorker(w) == SubSeq(workers, 1, w - 1) \o SubSeq(workers, w + 1, Len(workers))

\* A worker that synthesizes whatever the transcriber returned.
AfterTranscribeNoCheck(text) == "l208"

\* Where the worker goes once transcribe_audio returned text
\* (main.py:202-205): an empty or blank text leads to the early reset.
AfterTranscribe(text) == IF Strip(text) = <<>> THEN "l204" ELSE "l208"

\* A worker without the finally clause: an exception ends the thread.
AfterRaiseNoFinally == "done"

\* Where the worker goes when the transcriber or the synthesizer raised: the
\* handler of main.py:216-217 prints, then the finally clause runs.
AfterRaise == "l219"

\* main.py:193-205, the thread's steps on its own data: an empty recording
\* goes to the early reset of main.py:195; otherwise the transcriber is called
\* and returns a text, or raises (handled at main.py:216-217, then the finally
\* clause).
WorkerTranscribe(w) ==
    /\ UNCHANGED <<pod, unit_vars>>
    /\ workers[w].pc = "l193"
    /\ IF Len(workers[w].audio) = 0
       THEN workers' = SetWorker(w, [workers[w] EXCEPT
                          !.pc = "l195", !.cycle = "empty_recording",
                          !.sent = <<>>])
       ELSE \/ \E text \in TranscribeResults :
                 workers' = SetWorker(w, [workers[w] EXCEPT
                               !.text = text, !.pc = AfterTranscribe(text),
                               !.cycle = "transcribed",
                               !.audio = <<>>, !.sent = <<>>])
            \/ workers' = SetWorker(w, [workers[w] EXCEPT
                               !.pc = AfterRaise, !.cycle = "raised",
                               !.audio = <<>>, !.sent = <<>>])
    /\ UNCHANGED <<state, recording_buffer, recording_lock,
                   recording_start_time, recording_timer, stop_reason,
                   audio_buffer, timers, frame_ready, next_sample, rec_count,
                   dispatched, expected, snapshot>>

\* main.py:208-214: `self.state = SYNTHESIZING`, without the lock, then
\* tts.synthesize_and_play is invoked; it returns True or False or raises, and
\* every outcome continues at the finally clause.
WorkerSynthesize(w) ==
    /\ UNCHANGED <<pod, unit_vars>>
    /\ workers[w].pc = "l208"
    /\ state' = SYNTHESIZING
    /\ workers' = SetWorker(w, [workers[w] EXCEPT
                     !.synth = @ + 1, !.pc = "l219"])
    /\ UNCHANGED <<recording_buffer, recording_lock, recording_start_time,
                   recording_timer, stop_reason, audio_buffer, timers,
                   frame_ready, next_sample, rec_count, dispatched, expected,
                   snapshot>>

\* A worker that takes the lock when it starts and keeps it through the
\* transcriber and the synthesizer.
AtAnyLine(w) == workers[w].pc \in {"l193", "l208", "l195", "l204", "l219"}

\* The worker is at a call of _reset_to_listening: the early ones of
\* main.py:195 and main.py:204, or the one of the finally clause, main.py:219.
AtResetCall(w) == workers[w].pc \in {"l195", "l204", "l219"}

\* main.py:223: `with self.recording_lock`.
WorkerResetAcquire(w) ==
    /\ UNCHANGED <<pod, unit_vars>>
    /\ AtResetCall(w)
    /\ recording_lock = Free
    /\ recording_lock' = WorkerThread(w)
    /\ UNCHANGED <<state, recording_buffer, recording_start_time,
                   recording_timer, stop_reason, audio_buffer, timers, workers,
                   frame_ready, next_sample, rec_count, dispatched, expected,
                   snapshot>>

\* Where a worker continues after a call of _reset_to_listening returned: the
\* early calls are followed by `return` inside the try block, so the finally
\* clause runs next; the call of the finally clause ends the thread.
AfterReset(pc) == IF pc \in {"l195", "l204"} THEN "l219" ELSE "done"

\* A reset that returns with the lock still held.
LockKept(w) == WorkerThread(w)

\* The end of the `with self.recording_lock` block of main.py:223-231: the
\* lock is released.
LockReleased(w) == Free

\* main.py:224-232: the body of _reset_to_listening, then release.
WorkerResetBody(w) ==
    /\ UNCHANGED <<pod, unit_vars>>
    /\ AtResetCall(w)
    /\ recording_lock = WorkerThread(w)
    /\ ResetToListening
    /\ recording_lock' = LockReleased(w)
    /\ workers' = IF AfterReset(workers[w].pc) = "done"
                  THEN RemoveWorker(w)
                  ELSE SetWorker(w, [workers[w] EXCEPT !.pc = AfterReset(@)])
    /\ UNCHANGED <<stop_reason, audio_buffer, frame_ready, next_sample,
                   rec_count, dispatched>>

\* ------------------------------------------------------- the assistant spec
WorkerIds == DOMAIN workers

\* The steps of the timer and processing threads and of the clock.
ThreadNext ==
    \/ Tick
    \/ \E t \in TimerIds : TimerFire(t)
    \/ \E t \in TimerIds : TimerSetState(t)
    \/ \E t \in TimerIds : TimerDispatch(t)
    \/ \E w \in WorkerIds : WorkerTranscribe(w)
    \/ \E w \in WorkerIds : WorkerSynthesize(w)
    \/ \E w \in WorkerIds : WorkerResetAcquire(w)
    \/ \E w \in WorkerIds : WorkerResetBody(w)

AssistantNext ==
    \/ \E wake \in BOOLEAN, pause \in BOOLEAN : AudioCallback(wake, pause)
    \/ ThreadNext

SpecAssistant == AssistantInit /\ [][AssistantNext]_vars

\* The processing and timer threads are scheduled by the operating system
\* and, once runnable, run; the lock is handed to a waiting thread.  The audio
\* source and the passing of time are not forced.
AssistantFairness ==
    /\ WF_vars(\E t \in TimerIds : TimerSetState(t))
    /\ WF_vars(\E t \in TimerIds : TimerDispatch(t))
    /\ WF_vars(\E w \in WorkerIds : WorkerTranscribe(w))
    /\ WF_vars(\E w \in WorkerIds : WorkerSynthesize(w))
    /\ WF_vars(\E w \in WorkerIds : WorkerResetAcquire(w))
    /\ WF_vars(\E w \in WorkerIds : WorkerResetBody(w))

SpecAssistantFair == SpecAssistant /\ AssistantFairness

\* Time passes, and a threading.Timer whose interval is over and that was
\* not cancelled calls its function (main.py:155-159).
TimerFairness ==
    /\ WF_vars(Tick)
    /\ WF_vars(\E t \in TimerIds : TimerFire(t))

SpecAssistantTimed == SpecAssistant /\ AssistantFairness /\ TimerFairness

\* ================================================================ podcast
\* ParticipantRole (session.py:14-17).
MODERATOR == "moderator"
SPEAKER == "speaker"

\* Participant ids: the moderator, and the speakers 1..n in the order
\* ParticipantManager.get_speakers returns them (persona.py:205-207).
ModeratorId == 0

Participants(moderator, n) == (IF moderator THEN {ModeratorId} ELSE {}) \cup (1..n)

\* An Optional[str]: None, or a text given as a sequence of tokens, where "T"
\* stands for one complete <think>...</think> block, "w" for a word and " "
\* for white space.
None == [ok |-> FALSE, text |-> <<>>]
Some(text) == [ok |-> TRUE, text |-> text]

\* Python truthiness of an Optional[str]: `if response:`.
Truthy(r) == r.ok /\ r.text # <<>>

\* What client.chat.completions.create may do (llm_engine.py:39-46): raise,
\* or return an answer.
RawAnswers == { <<>>, <<" ">>, <<"T">>, <<"w">>, <<"T", " ", "w">> }
BackendOutcomes == {None} \cup { Some(a) : a \in RawAnswers }

IsNotThinking(t) == t # "T"

\* filter_thinking_blocks (text_filters.py:23-70): falsy text is returned as
\* is; otherwise the blocks are removed and the rest is stripped.
FilterThinkingBlocks(text) ==
    IF text = <<>> THEN text ELSE Strip(SelectSeq(text, IsNotThinking))

\* LLMSession.send_message (llm_engine.py:26-62) as seen by its caller: None
\* when the backend raised, else the answer, filtered when it is not empty.
SendMessage(out) ==
    IF ~out.ok THEN None
    ELSE IF out.text # <<>> THEN Some(FilterThinkingBlocks(out.text))
    ELSE out

\* _get_participant_response (orchestrator.py:405-427).
GetParticipantResponse(pd, participant_id, out) ==
    IF participant_id \notin pd.llm_sessions THEN None
    ELSE LET response == SendMessage(out)
         IN  IF Truthy(response)
             THEN Some(FilterThinkingBlocks(response.text))
             ELSE response

\* PodcastSession.log_event (session.py:116-127): the event types, in order.
LogEvent(pd, event_type) == [pd EXCEPT !.events = Append(@, event_type)]

\* PodcastSession.add_transcript_entry (session.py:99-114); segment is the
\* segment_name the orchestrator passes to _synthesize_speech with the entry.
AddTranscriptEntry(pd, participant_id, role, text, segment) ==
    [pd EXCEPT !.transcript = Append(@,
        [participant_id |-> participant_id, role |-> role, text |-> text,
         round_number |-> pd.current_round, segment |-> segment,
         audio_file |-> FALSE])]

\* The values of output_format (session.py:84) and what the TTS engine does
\* with one request: it returns a truthy result, a falsy one, or raises.
OutputFormats == {"text", "audio", "both"}
TtsOutcomes == {"ok", "nothing", "raise"}

\* A synthesis that plays every utterance it synthesizes.
SynthesisOperationAlwaysPlay(output_format) == "synthesize_and_play"

\* orchestrator.py:440-453: the operation of the TTS engine that is invoked
\* when the format is not "text".
SynthesisOperation(output_format) ==
    IF output_format = "audio" THEN "synthesize_only"
    ELSE "synthesize_and_play"

\* A synthesis that writes the audio file name into the first entry of the
\* transcript.
SynthesizeSpeechFirstEntry(pd, tts) ==
    IF pd.output_format = "text" THEN pd
    ELSE LET invoked ==
               [pd EXCEPT !.synth = Append(@,
                   [op |-> SynthesisOperation(pd.output_format),
                    entry |-> Len(pd.transcript)])]
         IN  IF tts = "ok"
             THEN IF invoked.transcript # <<>>
                  THEN [invoked EXCEPT !.transcript[1].audio_file = TRUE]
                  ELSE invoked
             ELSE [invoked EXCEPT !.synth_failed = @ + 1]

\* PodcastOrchestrator._synthesize_speech (orchestrator.py:429-461), called
\* right after the utterance was added to the transcript; synth records the
\* invocations of the TTS engine with the transcript entry they are for, and
\* audio_file of the last entry is set when the result is truthy.
SynthesizeSpeech(pd, tts) ==
    IF pd.output_format = "text" THEN pd
    ELSE LET invoked ==
               [pd EXCEPT !.synth = Append(@,
                   [op |-> SynthesisOperation(pd.output_format),
                    entry |-> Len(pd.transcript)])]
         IN  IF tts = "ok"
             THEN IF invoked.transcript # <<>>
                  THEN [invoked EXCEPT
                          !.transcript[Len(pd.transcript)].audio_file = TRUE]
                  ELSE invoked
             ELSE [invoked EXCEPT !.synth_failed = @ + 1]

\* orchestrator.py:326-330: the most recent moderator entry of the
\* transcript, as its position, or 0 when there is none.
RECURSIVE LastModeratorEntry(_)
LastModeratorEntry(transcript) ==
    IF transcript = <<>> THEN 0
    ELSE IF transcript[Len(transcript)].role = MODERATOR THEN Len(transcript)
    ELSE LastModeratorEntry(SubSeq(transcript, 1, Len(transcript) - 1))

\* The transcript entry whose text the prompt of a turn quotes: a speaker's
\* prompt quotes the most recent moderator entry (orchestrator.py:332-335),
\* or nothing when there is none (orchestrator.py:336-337); the moderator's
\* prompts quote no entry.
QuotedEntry(pd, role) ==
    IF role = SPEAKER THEN LastModeratorEntry(pd.transcript) ELSE 0

\* One turn: the prompt goes to the participant and a truthy response is
\* added to the transcript (orchestrator.py:230-242, 285-294, 310-319,
\* 339-348, 362-371, 394-403).  turns records every call of
\* _get_participant_response, with the entry its prompt quoted, and failed
\* counts the calls in which an existing LLM session gave nothing.
TakeTurn(pd, participant_id, role, segment, out, tts) ==
    LET response == GetParticipantResponse(pd, participant_id, out)
        said == IF Truthy(response)
                THEN SynthesizeSpeech(
                         AddTranscriptEntry(pd, participant_id, role,
                                            response.text, segment), tts)
                ELSE pd
    IN  [said EXCEPT
           !.turns = Append(@, [participant_id |-> participant_id,
                                segment |-> segment,
                                round_number |-> pd.current_round,
                                quoted |-> QuotedEntry(pd, role),
                                replied |-> Truthy(response)]),
           !.failed = IF participant_id \in pd.llm_sessions /\ ~Truthy(response)
                      THEN @ + 1 ELSE @]

\* The outcomes explored for a turn: at most MaxFailedTurns turns of a
\* podcast fail, for want of a reply although the participant has an LLM
\* session or for want of audio.
Explored(pd, participant_id, out, tts) ==
    /\ \/ Truthy(GetParticipantResponse(pd, participant_id, out))
       \/ participant_id \notin pd.llm_sessions
       \/ pd.failed + pd.synth_failed < MaxFailedTurns
    /\ \/ tts = "ok"
       \/ /\ Truthy(GetParticipantResponse(pd, participant_id, out))
          /\ pd.output_format # "text"
          /\ pd.failed + pd.synth_failed < MaxFailedTurns

\* ParticipantManager.get_speaking_order (persona.py:209-221): the moderator,
\* if any, then the speakers.
SpeakingOrder(moderator, n) ==
    (IF moderator THEN <<ModeratorId>> ELSE <<>>) \o [i \in 1..n |-> i]

\* The record of the calls made on a session exercised on its own: the last
\* method called, the number of calls, the value it returned (ok for the
\* methods returning a bool, speaker for advance_speaker), the number of
\* advance_speaker calls and the queue the session started with.
NoCall ==
    [op |-> "none", count |-> 0, ok |-> FALSE, speaker |-> NoParticipant,
     advances |-> 0, queue0 |-> <<>>]

\* An orchestrator on which start_podcast was never called
\* (orchestrator.py:37-40): current_session is None.
NoSession ==
    [pc |-> "idle", has_session |-> FALSE, is_active |-> FALSE,
     is_completed |-> FALSE, max_rounds |-> 0, current_round |-> 0,
     moderator |-> FALSE, speakers |-> 0, llm_sessions |-> {},
     transcript |-> <<>>, events |-> <<>>, round_num |-> 0, spk |-> 0,
     result |-> "none", runs |-> 0, failed |-> 0, turns |-> <<>>,
     saved |-> [done |-> FALSE, transcript |-> <<>>],
     speaking_queue |-> <<>>, current_speaker |-> NoParticipant,
     call |-> NoCall, output_format |-> "both", synth |-> <<>>,
     synth_failed |-> 0]

\* start_podcast (orchestrator.py:42-92): a session with max_rounds rounds,
\* the configured participants, an LLM session for every participant when the
\* engine is available and for none when it is not (llm_engine.py:263-264),
\* active, with the session_start event logged.
StartPodcast(max_rounds, moderator, n, llm_available, output_format) ==
    [NoSession EXCEPT
       !.output_format = output_format,
       !.has_session = TRUE, !.is_active = TRUE, !.max_rounds = max_rounds,
       !.moderator = moderator, !.speakers = n,
       !.llm_sessions = IF llm_available THEN Participants(moderator, n) ELSE {},
       !.speaking_queue = SpeakingOrder(moderator, n),
       !.current_speaker = IF SpeakingOrder(moderator, n) # <<>>
                           THEN SpeakingOrder(moderator, n)[1]
                           ELSE NoParticipant,
       !.events = <<"session_start">>]

PodcastStarts ==
    {NoSession} \cup
    { StartPodcast(r, m, n, a, f) :
        r \in 1..MaxRounds, m \in BOOLEAN, n \in 0..MaxSpeakers,
        a \in BOOLEAN, f \in OutputFormats }

PodcastInit == AssistantIdle /\ pod \in PodcastStarts /\ UnitsIdle

\* A run_podcast that asks for a session and not whether it is active.
RunPodcastAnySession ==
    /\ UNCHANGED <<assistant_vars, unit_vars>>
    /\ pod.pc \in {"idle", "returned"}
    /\ pod.runs < MaxRuns
    /\ pod' = IF ~pod.has_session
              THEN [pod EXCEPT !.pc = "returned", !.result = "false",
                               !.runs = @ + 1]
              ELSE [pod EXCEPT !.pc = "opening", !.result = "none",
                               !.runs = @ + 1]

\* run_podcast entry (orchestrator.py:101-105).
RunPodcast ==
    /\ UNCHANGED <<assistant_vars, unit_vars>>
    /\ pod.pc \in {"idle", "returned"}
    /\ pod.runs < MaxRuns
    /\ pod' = IF ~pod.has_session \/ ~pod.is_active
              THEN [pod EXCEPT !.pc = "returned", !.result = "false",
                               !.runs = @ + 1]
              ELSE [pod EXCEPT !.pc = "opening", !.result = "none",
                               !.runs = @ + 1]

\* A handler that returns False without logging anything.
RunPodcastExceptSilent(pd) == [pd EXCEPT !.pc = "returned", !.result = "false"]

\* The handler of run_podcast (orchestrator.py:130-133): the error is logged
\* and False is returned; nothing else of the session is touched.
RunPodcastExcept(pd) ==
    [LogEvent(pd, "error") EXCEPT !.pc = "returned", !.result = "false"]

\* _opening_segment (orchestrator.py:206-244); without a moderator it raises
\* and run_podcast's handler logs the error and returns False
\* (orchestrator.py:130-133).
OpeningSegment ==
    /\ UNCHANGED <<assistant_vars, unit_vars>>
    /\ pod.pc = "opening"
    /\ IF ~pod.moderator
       THEN pod' = RunPodcastExcept(pod)
       ELSE \E out \in BackendOutcomes, tts \in TtsOutcomes :
               /\ Explored(pod, ModeratorId, out, tts)
               /\ pod' = [TakeTurn(pod, ModeratorId, MODERATOR, "opening", out, tts)
                             EXCEPT !.pc = "loop", !.round_num = 1]

\* A start_new_round without the cap.
StartNewRoundUncapped(pd) ==
    LogEvent([pd EXCEPT !.current_round = @ + 1], "round_start")

\* PodcastSession.start_new_round (session.py:149-156): the session after the
\* call, and the value returned.
StartNewRound(pd) ==
    IF pd.current_round >= pd.max_rounds THEN pd
    ELSE LogEvent([pd EXCEPT !.current_round = @ + 1], "round_start")

StartNewRoundResult(pd) == pd.current_round < pd.max_rounds

\* The head of the loop of run_podcast (orchestrator.py:110-119) with the
\* entry of _run_discussion_round (orchestrator.py:248-253): the loop ends
\* when the range is exhausted, when start_new_round refuses or when the
\* round reports failure for want of participants.
RunDiscussionRound ==
    /\ UNCHANGED <<assistant_vars, unit_vars>>
    /\ pod.pc = "loop"
    /\ pod' = IF pod.round_num > pod.max_rounds \/ ~StartNewRoundResult(pod)
              THEN [pod EXCEPT !.pc = "closing"]
              ELSE LET pd == StartNewRound(pod)
                   IN  IF ~pd.moderator \/ pd.speakers = 0
                       THEN [pd EXCEPT !.pc = "closing"]
                       ELSE [pd EXCEPT !.pc = "intro"]

\* _moderator_round_intro (orchestrator.py:256, 273-296).
ModeratorRoundIntro ==
    /\ UNCHANGED <<assistant_vars, unit_vars>>
    /\ pod.pc = "intro"
    /\ \E out \in BackendOutcomes, tts \in TtsOutcomes :
          /\ Explored(pod, ModeratorId, out, tts)
          /\ pod' = [TakeTurn(pod, ModeratorId, MODERATOR, "round_intro", out, tts)
                        EXCEPT !.pc = "question", !.spk = 1]

\* _moderator_question_for_speaker (orchestrator.py:260, 298-321).
ModeratorQuestionForSpeaker ==
    /\ UNCHANGED <<assistant_vars, unit_vars>>
    /\ pod.pc = "question"
    /\ \E out \in BackendOutcomes, tts \in TtsOutcomes :
          /\ Explored(pod, ModeratorId, out, tts)
          /\ pod' = [TakeTurn(pod, ModeratorId, MODERATOR, "question", out, tts)
                        EXCEPT !.pc = "response"]

\* The next iteration of `for speaker in speakers` (orchestrator.py:259), or
\* the end of the round and the next iteration of the loop of run_podcast.
NextSpeaker(i, n) ==
    IF i < n THEN [pc |-> "question", spk |-> i + 1]
    ELSE [pc |-> "loop", spk |-> 0]

\* A round that gives up when a speaker does not reply.
AfterNoReplyAbort(i, n) == [pc |-> "closing", spk |-> 0]

\* orchestrator.py:263-265: the speaker did not reply, `continue`.
AfterNoReply(i, n) == NextSpeaker(i, n)

\* orchestrator.py:267-269: after a reply the moderator makes a transition,
\* except after the last speaker.
AfterReply(i, n) ==
    IF i # n THEN [pc |-> "transition", spk |-> i] ELSE NextSpeaker(i, n)

\* _speaker_response (orchestrator.py:261-269, 323-350) for speaker pod.spk.
SpeakerResponse ==
    /\ UNCHANGED <<assistant_vars, unit_vars>>
    /\ pod.pc = "response"
    /\ \E out \in BackendOutcomes, tts \in TtsOutcomes :
          /\ Explored(pod, pod.spk, out, tts)
          /\ LET pd == TakeTurn(pod, pod.spk, SPEAKER, "response", out, tts)
                 nxt == IF Truthy(GetParticipantResponse(pod, pod.spk, out))
                        THEN AfterReply(pod.spk, pod.speakers)
                        ELSE AfterNoReply(pod.spk, pod.speakers)
             IN  pod' = [pd EXCEPT !.pc = nxt.pc, !.spk = nxt.spk,
                            !.round_num = IF nxt.pc = "loop" THEN @ + 1 ELSE @]

\* _moderator_transition (orchestrator.py:269, 352-373).
ModeratorTransition ==
    /\ UNCHANGED <<assistant_vars, unit_vars>>
    /\ pod.pc = "transition"
    /\ \E out \in BackendOutcomes, tts \in TtsOutcomes :
          /\ Explored(pod, ModeratorId, out, tts)
          /\ LET nxt == NextSpeaker(pod.spk, pod.speakers)
             IN  pod' = [TakeTurn(pod, ModeratorId, MODERATOR, "transition", out, tts)
                            EXCEPT !.pc = nxt.pc, !.spk = nxt.spk,
                                   !.round_num =
                                       IF nxt.pc = "loop" THEN @ + 1 ELSE @]

\* _closing_segment (orchestrator.py:122, 375-403).
ClosingSegment ==
    /\ UNCHANGED <<assistant_vars, unit_vars>>
    /\ pod.pc = "closing"
    /\ IF ~pod.moderator
       THEN pod' = [pod EXCEPT !.pc = "complete"]
       ELSE \E out \in BackendOutcomes, tts \in TtsOutcomes :
               /\ Explored(pod, ModeratorId, out, tts)
               /\ pod' = [TakeTurn(pod, ModeratorId, MODERATOR, "closing", out, tts)
                             EXCEPT !.pc = "complete"]

\* A completion that sets is_completed and leaves is_active as it is.
CompleteSessionKeepActive(pd) ==
    LogEvent([pd EXCEPT !.is_completed = TRUE], "session_complete")

\* PodcastSession.complete_session (session.py:164-168).
CompleteSessionBody(pd) ==
    LogEvent([pd EXCEPT !.is_active = FALSE, !.is_completed = TRUE],
             "session_complete")

\* orchestrator.py:125-128: complete_session, then run_podcast returns True.
CompleteSession ==
    /\ UNCHANGED <<assistant_vars, unit_vars>>
    /\ pod.pc = "complete"
    /\ pod' = [CompleteSessionBody(pod)
                  EXCEPT !.pc = "returned", !.result = "true"]

\* save_results (orchestrator.py:482-518), called between runs: without a
\* session it returns {} at once; otherwise the session's transcript is
\* written out, unless the file system raises (io_ok false), which is caught
\* and changes nothing.
SaveResults(io_ok) ==
    /\ UNCHANGED <<assistant_vars, unit_vars>>
    /\ pod.pc \in {"idle", "returned"}
    /\ pod' = IF pod.has_session /\ io_ok
              THEN [pod EXCEPT !.saved = [done |-> TRUE,
                                          transcript |-> pod.transcript]]
              ELSE pod

PodcastNext ==
    \/ RunPodcast
    \/ \E io_ok \in BOOLEAN : SaveResults(io_ok)
    \/ OpeningSegment
    \/ RunDiscussionRound
    \/ ModeratorRoundIntro
    \/ ModeratorQuestionForSpeaker
    \/ SpeakerResponse
    \/ ModeratorTransition
    \/ ClosingSegment
    \/ CompleteSession

SpecPodcast == PodcastInit /\ [][PodcastNext]_vars

\* ---------------------------------------- a PodcastSession on its own
\* PodcastSession(...) (session.py:66-97) with the queue that
\* _setup_participants gives it (orchestrator.py:147-150); active is whether
\* start_podcast has set is_active (orchestrator.py:88).
NewSession(max_rounds, moderator, n, active) ==
    [NoSession EXCEPT
       !.pc = "session", !.has_session = TRUE, !.is_active = active,
       !.max_rounds = max_rounds, !.moderator = moderator, !.speakers = n,
       !.speaking_queue = SpeakingOrder(moderator, n),
       !.current_speaker = IF SpeakingOrder(moderator, n) # <<>>
                           THEN SpeakingOrder(moderator, n)[1]
                           ELSE NoParticipant,
       !.call = [NoCall EXCEPT !.queue0 = SpeakingOrder(moderator, n)]]

SessionInit ==
    /\ AssistantIdle /\ UnitsIdle
    /\ pod \in { NewSession(r, m, n, a) :
                    r \in 0..MaxRounds, m \in BOOLEAN, n \in 0..MaxSpeakers,
                    a \in BOOLEAN }

\* The call record after one more call of op.
Called(pd, op, ok, speaker) ==
    [pd.call EXCEPT !.op = op, !.count = @ + 1, !.ok = ok, !.speaker = speaker,
                    !.advances = IF op = "advance_speaker" THEN @ + 1 ELSE @]

\* session.start_new_round() (session.py:149-156).
SessionStartNewRound ==
    /\ UNCHANGED <<assistant_vars, unit_vars>>
    /\ pod.pc = "session" /\ pod.call.count < MaxCalls
    /\ pod' = [StartNewRound(pod) EXCEPT
                  !.call = Called(pod, "start_new_round",
                                  StartNewRoundResult(pod), NoParticipant)]

\* An advance_speaker that drops the front of the queue.
AdvanceSpeakerDropFront(pd) ==
    IF pd.speaking_queue = <<>> THEN pd
    ELSE LET queue == Tail(pd.speaking_queue)
         IN  [pd EXCEPT !.speaking_queue = queue,
                        !.current_speaker = IF queue # <<>> THEN queue[1]
                                            ELSE NoParticipant]

\* PodcastSession.advance_speaker (session.py:135-147): the session after the
\* call, and the value returned.
AdvanceSpeaker(pd) ==
    IF pd.speaking_queue = <<>> THEN pd
    ELSE LET queue == Append(Tail(pd.speaking_queue), Head(pd.speaking_queue))
         IN  [pd EXCEPT !.speaking_queue = queue,
                        !.current_speaker = IF queue # <<>> THEN queue[1]
                                            ELSE NoParticipant]

AdvanceSpeakerResult(pd) ==
    IF pd.speaking_queue = <<>> THEN NoParticipant
    ELSE AdvanceSpeaker(pd).current_speaker

SessionAdvanceSpeaker ==
    /\ UNCHANGED <<assistant_vars, unit_vars>>
    /\ pod.pc = "session" /\ pod.call.count < MaxCalls
    /\ pod' = [AdvanceSpeaker(pod) EXCEPT
                  !.call = Called(pod, "advance_speaker", FALSE,
                                  AdvanceSpeakerResult(pod))]

\* PodcastSession.can_continue (session.py:158-162).
CanContinue(pd) ==
    ~pd.is_completed /\ pd.is_active /\ pd.current_round < pd.max_rounds

SessionCanContinue ==
    /\ UNCHANGED <<assistant_vars, unit_vars>>
    /\ pod.pc = "session" /\ pod.call.count < MaxCalls
    /\ pod' = [pod EXCEPT
                  !.call = Called(pod, "can_continue", CanContinue(pod),
                                  NoParticipant)]

\* session.complete_session() (session.py:164-168).
SessionCompleteSession ==
    /\ UNCHANGED <<assistant_vars, unit_vars>>
    /\ pod.pc = "session" /\ pod.call.count < MaxCalls
    /\ pod' = [CompleteSessionBody(pod) EXCEPT
                  !.call = Called(pod, "complete_session", FALSE,
                                  NoParticipant)]

SessionNext ==
    \/ SessionStartNewRound
    \/ SessionAdvanceSpeaker
    \/ SessionCanContinue
    \/ SessionCompleteSession

SpecSession == SessionInit /\ [][SessionNext]_vars

\* ------------------------------------------------ an LLMSession on its own
\* The entries of conversation_history (llm_engine.py:22-24, 33-36, 53-56).
SystemEntry(content) == [role |-> "system", content |-> content]
UserEntry(content) == [role |-> "user", content |-> content]

\* An answer stored under the system role.
AssistantEntryAsSystem(content) == [role |-> "system", content |-> content]

AssistantEntry(content) == [role |-> "assistant", content |-> content]

\* The messages a caller may pass to send_message, and the arguments it may
\* pass to reset_conversation: nothing (None), "" or a new prompt.
Messages == { <<>>, <<" ">>, <<"w">> }
ResetArguments == { None, Some(<<>>), Some(<<"p">>) }

\* LLMSession(...) (llm_engine.py:17-24); sent is what the backend was given
\* in the last call (empty when it was not called), failed whether the
\* backend raised in the last call, ret the value the last call returned,
\* arg the argument of the last reset_conversation.
NewLlmSession(filter_thinking) ==
    [pc |-> "llm", history |-> << SystemEntry(<<"s">>) >>,
     filter_thinking |-> filter_thinking, op |-> "none", count |-> 0,
     ret |-> None, sent |-> <<>>, failed |-> FALSE, arg |-> None]

LlmInit ==
    /\ AssistantIdle /\ pod = PodIdle /\ detector = DetectorIdle
    /\ wakeword = WakeIdle /\ ctx = CtxIdle
    /\ llm \in { NewLlmSession(f) : f \in BOOLEAN }

\* A send that takes the user entry back when the backend fails.
AfterBackendFailureRollback(history, message) == history

\* llm_engine.py:60-62: the backend raised after the user entry was appended
\* at llm_engine.py:33-36; the handler returns None and touches nothing.
AfterBackendFailure(history, message) == Append(history, UserEntry(message))

\* llm_engine.py:46-50: the answer, filtered when filtering is on and the
\* answer is not empty.
Answer(out, filter_thinking) ==
    IF filter_thinking /\ out.text # <<>>
    THEN FilterThinkingBlocks(out.text) ELSE out.text

\* LLMSession.send_message (llm_engine.py:26-62).
LlmSendMessage(message, out) ==
    /\ UNCHANGED <<assistant_vars, pod, detector, wakeword, ctx>>
    /\ llm.pc = "llm" /\ llm.count < MaxCalls
    /\ llm' =
         IF Strip(message) = <<>>
         THEN [llm EXCEPT !.op = "send", !.count = @ + 1, !.ret = None,
                          !.sent = <<>>, !.failed = FALSE]
         ELSE LET given == Append(llm.history, UserEntry(message))
              IN  IF ~out.ok
                  THEN [llm EXCEPT
                          !.history = AfterBackendFailure(llm.history, message),
                          !.op = "send", !.count = @ + 1, !.ret = None,
                          !.sent = given, !.failed = TRUE]
                  ELSE [llm EXCEPT
                          !.history = Append(given,
                              AssistantEntry(Answer(out, llm.filter_thinking))),
                          !.op = "send", !.count = @ + 1,
                          !.ret = Some(Answer(out, llm.filter_thinking)),
                          !.sent = given, !.failed = FALSE]

\* LLMSession.reset_conversation (llm_engine.py:72-81): the history after
\* the call.
ResetConversation(history, new_system_prompt) ==
    IF Truthy(new_system_prompt)
    THEN << SystemEntry(new_system_prompt.text) >>
    ELSE << history[1] >>

LlmResetConversation(new_system_prompt) ==
    /\ UNCHANGED <<assistant_vars, pod, detector, wakeword, ctx>>
    /\ llm.pc = "llm" /\ llm.count < MaxCalls
    /\ llm' = [llm EXCEPT
                  !.history = ResetConversation(llm.history, new_system_prompt),
                  !.op = "reset", !.count = @ + 1, !.ret = None,
                  !.sent = <<>>, !.failed = FALSE, !.arg = new_system_prompt]

LlmNext ==
    \/ \E message \in Messages, out \in BackendOutcomes :
          LlmSendMessage(message, out)
    \/ \E new_system_prompt \in ResetArguments :
          LlmResetConversation(new_system_prompt)

SpecLlm == LlmInit /\ [][LlmNext]_vars

\* ---------------------------------------------- a PauseDetector on its own
\* PauseDetector.reset (pause_detection.py:33-38); calibration_samples is
\* kept as its length and its sum, all the code reads of it (lines 42-47).
ResetDetector(d) ==
    [d EXCEPT !.silence_chunks = 0, !.total_chunks = 0,
              !.noise_level = [ok |-> FALSE, sum |-> 0],
              !.calibration_samples = [len |-> 0, sum |-> 0],
              !.classified = <<>>]

\* PauseDetector(config) (pause_detection.py:14-31); ret is the result and
\* recording_duration and energy are the arguments of the last
\* should_stop_recording, frames the calls made so far, classified what
\* is_voice_detected answered for each frame counted since the last reset.
NewDetector(pause_detection_enabled) ==
    ResetDetector(
        [pc |-> "detector",
         pause_detection_enabled |-> pause_detection_enabled,
         silence_chunks |-> 0, total_chunks |-> 0,
         noise_level |-> [ok |-> FALSE, sum |-> 0],
         calibration_samples |-> [len |-> 0, sum |-> 0],
         op |-> "none", ret |-> FALSE, recording_duration |-> 0,
         energy |-> 0, frames |-> 0, classified |-> <<>>])

DetectorInit ==
    /\ AssistantIdle /\ pod = PodIdle /\ llm = LlmIdle
    /\ wakeword = WakeIdle /\ ctx = CtxIdle
    /\ detector \in { NewDetector(en) : en \in BOOLEAN }

\* A calibration that fixes the noise level one sample early.
CalibrateNoiseLevelEarly(d, energy) ==
    IF d.calibration_samples.len < CalibrationChunks
    THEN LET samples == [len |-> d.calibration_samples.len + 1,
                         sum |-> d.calibration_samples.sum + energy]
         IN  [d EXCEPT !.calibration_samples = samples,
                       !.noise_level =
                           IF samples.len = CalibrationChunks - 1
                           THEN [ok |-> TRUE, sum |-> samples.sum] ELSE @]
    ELSE d

\* PauseDetector.calibrate_noise_level (pause_detection.py:40-49):
\* noise_level = mean(calibration_samples) * 2 once there are ten samples.
CalibrateNoiseLevel(d, energy) ==
    IF d.calibration_samples.len < CalibrationChunks
    THEN LET samples == [len |-> d.calibration_samples.len + 1,
                         sum |-> d.calibration_samples.sum + energy]
         IN  [d EXCEPT !.calibration_samples = samples,
                       !.noise_level =
                           IF samples.len = CalibrationChunks
                           THEN [ok |-> TRUE, sum |-> samples.sum] ELSE @]
    ELSE d

\* PauseDetector.is_voice_detected (pause_detection.py:51-70), its result:
\* energy > max(voice_energy_threshold, noise_level), with
\* noise_level = 2 * sum / CalibrationChunks.
IsVoiceDetected(d, energy) ==
    \/ ~d.pause_detection_enabled
    \/ ~d.noise_level.ok
    \/ /\ energy > VoiceEnergyThreshold
       /\ CalibrationChunks * energy > 2 * d.noise_level.sum

\* is_voice_detected's effect on the detector (pause_detection.py:59-61).
AfterVoiceDetection(d, energy) ==
    IF d.pause_detection_enabled /\ ~d.noise_level.ok
    THEN CalibrateNoiseLevel(d, energy) ELSE d

\* A detector that counts silence from the first frame on.
ReturnsEarlyNoMinimum(d, recording_duration) == ~d.pause_detection_enabled

\* pause_detection.py:74-79: the two early returns of should_stop_recording.
ReturnsEarly(d, recording_duration) ==
    \/ ~d.pause_detection_enabled
    \/ recording_duration < MinRecordingDuration

\* A silence counter that a voiced frame does not clear.
SilenceChunksKept(d, voice) ==
    IF voice THEN d.silence_chunks ELSE d.silence_chunks + 1

\* pause_detection.py:84-87: silence_chunks after the frame.
SilenceChunks(d, voice) == IF voice THEN 0 ELSE d.silence_chunks + 1

\* pause_detection.py:81-96: the frame is counted, and the recording stops
\* when silence_chunks / samples_per_second >= pause_threshold.
CountFrame(d, energy) ==
    LET voice == IsVoiceDetected(d, energy)
        d1 == AfterVoiceDetection([d EXCEPT !.total_chunks = @ + 1], energy)
        d2 == [d1 EXCEPT !.silence_chunks = SilenceChunks(d1, voice),
                         !.classified = Append(@, voice)]
    IN  [d2 EXCEPT !.ret =
            d2.silence_chunks >= PauseThreshold * SamplesPerSecond]

\* PauseDetector.should_stop_recording (pause_detection.py:72-96); energy
\* is calculate_energy(audio_chunk) (audio_utils.py:8-18).
StopDecision(d, energy, recording_duration) ==
    IF ReturnsEarly(d, recording_duration)
    THEN [d EXCEPT !.ret = FALSE]
    ELSE CountFrame(d, energy)

\* One call of should_stop_recording on the detector exercised on its own.
ShouldStopRecording(energy, recording_duration) ==
    /\ UNCHANGED <<assistant_vars, pod, llm, wakeword, ctx>>
    /\ detector.pc = "detector" /\ detector.frames < MaxFrames
    /\ LET d == [detector EXCEPT !.op = "should_stop", !.frames = @ + 1,
                                  !.recording_duration = recording_duration,
                                  !.energy = energy]
       IN  detector' = StopDecision(d, energy, recording_duration)

\* PauseDetector.reset called between two recordings (main.py:137).
DetectorReset ==
    /\ UNCHANGED <<assistant_vars, pod, llm, wakeword, ctx>>
    /\ detector.pc = "detector" /\ detector.op # "reset"
    /\ detector' = [ResetDetector(detector) EXCEPT !.op = "reset"]

DetectorNext ==
    \/ \E energy \in 0..MaxEnergy,
          recording_duration \in 0..MaxRecordingDuration :
          ShouldStopRecording(energy, recording_duration)
    \/ DetectorReset

SpecDetector == DetectorInit /\ [][DetectorNext]_vars

\* ------------------------------- the assistant loop with its pause detector
\* calculate_energy(audio_chunk) (audio_utils.py:8-18) of a chunk of one
\* non-negative sample: sqrt(mean(chunk ** 2)) is the sample itself.
CalculateEnergy(chunk) == chunk[1]

\* The detector after should_stop_recording was called for each energy of
\* the sequence in turn, past min_recording_duration.
RECURSIVE AfterFrames(_, _)
AfterFrames(d, energies) ==
    IF energies = <<>> THEN d
    ELSE AfterFrames(StopDecision(d, Head(energies), MinRecordingDuration),
                     Tail(energies))

\* The frames of an earlier recording: ten of background noise that
\* calibrate the detector, then n silent ones.
EarlierFrames(n) == [i \in 1..(CalibrationChunks + n) |->
                       IF i <= CalibrationChunks THEN i % 2 ELSE 0]

\* self.pause_detector as the assistant holds it while it listens
\* (main.py:49): newly constructed, or left by an earlier recording that the
\* deadline ended.
ListeningDetectors ==
    { NewDetector(TRUE) } \cup
    { AfterFrames(NewDetector(TRUE), EarlierFrames(n)) :
        n \in 0..(PauseThreshold * SamplesPerSecond - 1) }

GateInit ==
    /\ AssistantIdle /\ pod = PodIdle /\ llm = LlmIdle
    /\ wakeword = WakeIdle /\ ctx = CtxIdle
    /\ detector \in ListeningDetectors

\* A _start_recording that leaves the pause detector as it is.
StartedDetectorKept(d) == d

\* main.py:137: _start_recording resets the pause detector.
StartedDetector(d) == ResetDetector(d)

\* audio_callback (main.py:83-130) with the pause detector it calls:
\* _start_recording resets it (main.py:137) and a frame of a recording is
\* handed to should_stop_recording with the recording's age (main.py:121).
GatedAudioCallback(wake) ==
    LET called == state = RECORDING /\ recording_start_time # NoStartTime
        d == IF state = LISTENING /\ wake THEN StartedDetector(detector)
             ELSE IF called
             THEN StopDecision(detector, CalculateEnergy(<<next_sample>>),
                               recording_start_time)
             ELSE detector
    IN  /\ UNCHANGED <<pod, llm, wakeword, ctx>>
        /\ AudioCallbackBody(wake, called /\ d.ret)
        /\ detector' = d

GateNext ==
    \/ \E wake \in BOOLEAN : GatedAudioCallback(wake)
    \/ ThreadNext

SpecGate == GateInit /\ [][GateNext]_vars

\* ------------------------------------------- a WakeWordDetector on its own
\* A deque that refuses the newest samples when it is full.
ExtendKeepOldest(buf, maxlen, chunk) ==
    LET all == buf \o chunk
    IN  IF Len(all) <= maxlen THEN all ELSE SubSeq(all, 1, maxlen)

\* deque(maxlen=buffer_size).extend(audio_data) (wake_word.py:32-33, 62).
Extend(buf, maxlen, chunk) ==
    LET all == buf \o chunk
    IN  IF Len(all) <= maxlen THEN all
        ELSE SubSeq(all, Len(all) - maxlen + 1, Len(all))

\* The samples of a frame of k samples, numbered in their order of arrival
\* after the n samples given before.
Chunk(n, k) == [i \in 1..k |-> n + i - 1]

\* str.lower() on the letters the fragments are made of.
Lower(text) ==
    [i \in 1..Len(text) |->
        IF text[i] = "A" THEN "a" ELSE IF text[i] = "B" THEN "b" ELSE text[i]]

\* A match that wants the keyword to stand as a word of its own.
ContainsWord(text, keyword) ==
    \E i \in 0..(Len(text) - Len(keyword)) :
        /\ SubSeq(text, i + 1, i + Len(keyword)) = keyword
        /\ (i = 0 \/ text[i] = " ")
        /\ (i + Len(keyword) = Len(text) \/ text[i + Len(keyword) + 1] = " ")

\* `keyword in text` (wake_word.py:100).
Contains(text, keyword) ==
    \E i \in 0..(Len(text) - Len(keyword)) :
        SubSeq(text, i + 1, i + Len(keyword)) = keyword

\* The keyword lists a detector may be configured with (wake_word.py:25).
KeywordLists ==
    { <<>>, << <<"b">> >>, << <<"B">> >>,
      << <<"a", "a">>, <<"b", " ">> >> }

\* The texts the engine may finalize.
Fragments ==
    { <<>>, <<"a">>, <<"b">>, <<"a", "b">>, <<"a", " ", "b">>,
      <<"A", "B">>, <<"b", " ", "a">> }

\* What the engine does with one frame (wake_word.py:90-95): the conversion
\* or the engine raises, AcceptWaveform returns False, or it returns True
\* and Result() has no 'text' key or has a text.
RecognizerOutcomes ==
    { [kind |-> k, text |-> <<>>] : k \in {"raise", "partial", "notext"} }
    \cup { [kind |-> "final", text |-> t] : t \in Fragments }
NotConsulted == [kind |-> "none", text |-> <<>>]

\* WakeWordDetector(config) (wake_word.py:20-33); appended counts the
\* samples given to the buffer so far, outcome is what the engine did in the
\* last detect_wake_word, detected / text / pre_trigger_audio are what that
\* call returned.
NewWakeWordDetector(keywords, buffer_size) ==
    [pc |-> "wake", recognizer |-> FALSE, keywords |-> keywords,
     buffer_size |-> buffer_size, audio_buffer |-> <<>>, appended |-> 0,
     op |-> "none", count |-> 0, outcome |-> NotConsulted,
     detected |-> FALSE, text |-> <<>>, pre_trigger_audio |-> <<>>]

WakeInit ==
    /\ AssistantIdle /\ pod = PodIdle
    /\ llm = LlmIdle /\ detector = DetectorIdle /\ ctx = CtxIdle
    /\ wakeword \in { NewWakeWordDetector(kw, n) :
                         kw \in KeywordLists, n \in 0..MaxBufferSize }

\* WakeWordDetector.initialize (wake_word.py:35-58): the recognizer is
\* created when the model is found and loads.
WakeInitialize(ok) ==
    /\ UNCHANGED <<assistant_vars, pod, llm, detector, ctx>>
    /\ wakeword.pc = "wake" /\ wakeword.count < MaxCalls
    /\ wakeword' = [wakeword EXCEPT !.recognizer = IF ok THEN TRUE ELSE @,
                                    !.op = "initialize", !.count = @ + 1]

\* WakeWordDetector.add_audio_to_buffer (wake_word.py:60-62), on a record.
AddAudioToBuffer(w, k) ==
    [w EXCEPT !.audio_buffer = Extend(@, w.buffer_size, Chunk(w.appended, k)),
              !.appended = @ + k]

WakeAddAudioToBuffer(k) ==
    /\ UNCHANGED <<assistant_vars, pod, llm, detector, ctx>>
    /\ wakeword.pc = "wake" /\ wakeword.count < MaxCalls
    /\ wakeword' = [AddAudioToBuffer(wakeword, k) EXCEPT
                       !.op = "add", !.count = @ + 1]

\* wake_word.py:100: any(keyword in text for keyword in self.keywords).
AnyKeyword(keywords, text) ==
    \E n \in 1..Len(keywords) : Contains(text, keywords[n])

\* wake_word.py:93-105: the engine's outcome makes detect_wake_word report
\* a trigger.
Triggers(keywords, outcome) ==
    /\ outcome.kind = "final"
    /\ outcome.text # <<>>
    /\ AnyKeyword(keywords, Lower(outcome.text))

\* WakeWordDetector.detect_wake_word (wake_word.py:68-109).
DetectWakeWord(k, outcome) ==
    /\ UNCHANGED <<assistant_vars, pod, llm, detector, ctx>>
    /\ wakeword.pc = "wake" /\ wakeword.count < MaxCalls
    /\ LET w == [wakeword EXCEPT !.op = "detect", !.count = @ + 1]
           w1 == AddAudioToBuffer(w, k)
       IN  wakeword' =
             IF ~w.recognizer
             THEN [w EXCEPT !.outcome = NotConsulted, !.detected = FALSE,
                            !.text = <<>>, !.pre_trigger_audio = <<>>]
             ELSE IF Triggers(w.keywords, outcome)
             THEN [w1 EXCEPT !.outcome = outcome, !.detected = TRUE,
                             !.text = Lower(outcome.text),
                             !.pre_trigger_audio = w1.audio_buffer]
             ELSE [w1 EXCEPT !.outcome = outcome, !.detected = FALSE,
                             !.text = <<>>, !.pre_trigger_audio = <<>>]

WakeNext ==
    \/ \E ok \in BOOLEAN : WakeInitialize(ok)
    \/ \E k \in 0..MaxChunk : WakeAddAudioToBuffer(k)
    \/ \E k \in 0..MaxChunk, outcome \in RecognizerOutcomes :
          DetectWakeWord(k, outcome)

SpecWake == WakeInit /\ [][WakeNext]_vars

\* ------------------------------------ a PodcastContextEnricher on its own
Topics == {"t1", "t2"}

\* A SearchResult (context_enricher.py:15-22) as far as
\* _process_search_results reads it: whether its summary is longer than 20
\* characters, whether it has a url, whether it has a source.
SearchResults ==
    [id : {"r"}, long_summary : BOOLEAN, url : BOOLEAN, source : BOOLEAN]

\* What SearchProvider.search does (context_enricher.py:151-184, 197-200):
\* it raises, or returns a list of results.
ResultLists ==
    UNION { [1..n -> SearchResults] : n \in 0..MaxResults }
SearchOutcomes ==
    { [raised |-> TRUE, results |-> <<>>] }
    \cup { [raised |-> FALSE, results |-> r] : r \in ResultLists }

\* A fact of an EnrichedContext: a templated sentence about the topic, one
\* of the two generic sentences, or the summary of the n-th search result.
Fact(kind, topic, n) == [kind |-> kind, topic |-> topic, n |-> n]

\* PodcastContextEnricher._create_fallback_context
\* (context_enricher.py:292-306).
CreateFallbackContext(topic) ==
    [raised |-> FALSE, topic |-> topic, overview |-> "fallback",
     facts |-> << Fact("topical", topic, 0), Fact("viewpoints", "", 0),
                  Fact("aspects", "", 0) >>,
     sources |-> {"expert_knowledge"}, search_results |-> <<>>,
     search_provider |-> "fallback"]

\* context_enricher.py:264-277: the summaries longer than 20 characters, in
\* the order of the results, at most six of them.
RECURSIVE SummaryFacts(_, _, _)
SummaryFacts(topic, results, n) ==
    IF n > Len(results) THEN <<>>
    ELSE (IF results[n].long_summary
          THEN << Fact("summary", topic, n) >> ELSE <<>>)
         \o SummaryFacts(topic, results, n + 1)

FirstSix(facts) == SubSeq(facts, 1, IF Len(facts) < 6 THEN Len(facts) ELSE 6)

\* context_enricher.py:271-274: the url of each result, or else its source.
AllSources(results) ==
    { IF results[n].url THEN "url" ELSE "source" :
        n \in { m \in 1..Len(results) : results[m].url \/ results[m].source } }

\* PodcastContextEnricher._process_search_results
\* (context_enricher.py:253-290); list(set(sources))[:4] keeps any four.
ProcessSearchResults(topic, results, provider, sources) ==
    [raised |-> FALSE, topic |-> topic,
     overview |-> IF results # <<>> THEN "found" ELSE "interest",
     facts |-> FirstSix(SummaryFacts(topic, results, 1)),
     sources |-> sources, search_results |-> results,
     search_provider |-> provider]

\* An enrichment that lets the error of the search propagate.
AfterSearchRaisesPropagate(topic) ==
    [CreateFallbackContext(topic) EXCEPT !.raised = TRUE]

\* context_enricher.py:249-251: the handler of enrich_context.
AfterSearchRaises(topic) == CreateFallbackContext(topic)

\* PodcastContextEnricher(config) (context_enricher.py:210-230): provider
\* is the lower-cased class name of the search provider without
\* 'SearchProvider' (context_enricher.py:280); available and outcome are
\* what the provider answered in the last enrich_context, context what that
\* call returned.
NewEnricher(provider) ==
    [pc |-> "enricher", provider |-> provider, op |-> "none",
     available |-> TRUE, outcome |-> [raised |-> FALSE, results |-> <<>>],
     context |-> CreateFallbackContext("t1")]

EnricherInit ==
    /\ AssistantIdle /\ pod = PodIdle
    /\ llm = LlmIdle /\ detector = DetectorIdle /\ wakeword = WakeIdle
    /\ ctx \in { NewEnricher(p) : p \in {"mock", "web"} }

\* PodcastContextEnricher.enrich_context (context_enricher.py:232-251);
\* WebSearchProvider.search always raises (context_enricher.py:197-200).
EnrichContext(topic, available, outcome) ==
    /\ UNCHANGED <<assistant_vars, pod, llm, detector, wakeword>>
    /\ ctx.pc = "enricher"
    /\ ctx.provider = "web" => outcome.raised
    /\ \E sources \in SUBSET AllSources(outcome.results) :
          /\ Cardinality(sources) =
                IF Cardinality(AllSources(outcome.results)) < 4
                THEN Cardinality(AllSources(outcome.results)) ELSE 4
          /\ ctx' = [ctx EXCEPT
                !.op = "enrich", !.available = available,
                !.outcome = IF available THEN outcome
                            ELSE [raised |-> FALSE, results |-> <<>>],
                !.context =
                    IF ~available THEN CreateFallbackContext(topic)
                    ELSE IF outcome.raised THEN AfterSearchRaises(topic)
                    ELSE ProcessSearchResults(topic, outcome.results,
                                              ctx.provider, sources)]

EnricherNext ==
    \E topic \in Topics, available \in BOOLEAN, outcome \in SearchOutcomes :
        EnrichContext(topic, available, outcome)

SpecEnricher == EnricherInit /\ [][EnricherNext]_vars

\* ------------------------------------------- the ContextSplitter on its own
\* The facts a source list is made of, and the expertise_areas a speaker may
\* have (persona.py): none, areas of one or two words, a blank area.
FactTexts ==
    { <<"a">>, <<"A", "b">>, <<"b", "a">>, <<"c">>, <<"d">>, <<"c", "d">> }
ExpertiseAreas ==
    { <<>>, << <<"a">> >>, << <<"B", " ", "a">> >>, << <<"e">>, <<"d">> >>,
      << <<" ">> >> }
FactLists == UNION { [1..n -> FactTexts] : n \in 0..MaxFacts }

\* str.split(): the words of a text, split at blanks.
FirstWordLen(text) ==
    CHOOSE n \in 1..Len(text) :
        /\ \A i \in 1..n : text[i] # " "
        /\ (n = Len(text) \/ text[n + 1] = " ")

RECURSIVE Words(_)
Words(text) ==
    IF text = <<>> THEN <<>>
    ELSE IF text[1] = " " THEN Words(Tail(text))
    ELSE << SubSeq(text, 1, FirstWordLen(text)) >>
         \o Words(SubSeq(text, FirstWordLen(text) + 1, Len(text)))

\* context_splitter.py:131-135: the set of the lower-cased words of the
\* expertise areas.
ExpertiseKeywords(expertise_areas) ==
    UNION { { Words(Lower(expertise_areas[n]))[k] :
                k \in 1..Len(Words(Lower(expertise_areas[n]))) } :
            n \in 1..Len(expertise_areas) }

\* context_splitter.py:139-140: some keyword occurs in the lower-cased fact.
IsRelevant(fact, expertise_areas) ==
    \E keyword \in ExpertiseKeywords(expertise_areas) :
        Contains(Lower(fact), keyword)

\* context_splitter.py:138-141: the facts with a keyword, in source order.
RECURSIVE RelevantFacts(_, _, _)
RelevantFacts(facts, expertise_areas, n) ==
    IF n > Len(facts) THEN <<>>
    ELSE (IF IsRelevant(facts[n], expertise_areas)
          THEN << facts[n] >> ELSE <<>>)
         \o RelevantFacts(facts, expertise_areas, n + 1)

\* context_splitter.py:145-149: the loop that adds the facts not yet in the
\* list and stops after the iteration that finds three or more in it.
RECURSIVE PadFacts(_, _, _)
PadFacts(relevant_facts, facts, n) ==
    IF n > Len(facts) THEN relevant_facts
    ELSE LET added ==
               IF \E i \in 1..Len(relevant_facts) :
                     relevant_facts[i] = facts[n]
               THEN relevant_facts
               ELSE Append(relevant_facts, facts[n])
         IN  IF Len(added) >= 3 THEN added
             ELSE PadFacts(added, facts, n + 1)

\* A list returned whole.
FirstFactsUncapped(facts, n) == facts

\* facts[:n] (context_splitter.py:128, 151).
FirstFacts(facts, n) == SubSeq(facts, 1, IF Len(facts) < n THEN Len(facts) ELSE n)

\* ContextSplitter._filter_facts_by_expertise (context_splitter.py:125-151).
FilterFactsByExpertise(facts, expertise_areas) ==
    IF expertise_areas = <<>> THEN FirstFacts(facts, 3)
    ELSE LET relevant_facts == RelevantFacts(facts, expertise_areas, 1)
         IN  FirstFacts(IF Len(relevant_facts) < 2
                        THEN PadFacts(relevant_facts, facts, 1)
                        ELSE relevant_facts, 4)

\* The inputs of one call: the facts of the enriched context and the
\* expertise areas of the speaker's profile (context_splitter.py:96-98).
SplitterInit ==
    /\ AssistantIdle /\ pod = PodIdle
    /\ llm = LlmIdle /\ detector = DetectorIdle /\ wakeword = WakeIdle
    /\ ctx \in { [pc |-> "splitter", op |-> "none", facts |-> f,
                   expertise_areas |-> x, relevant_facts |-> <<>>] :
                 f \in FactLists, x \in ExpertiseAreas }

\* _get_speaker_context calls _filter_facts_by_expertise
\* (context_splitter.py:96-98, 117).
FilterFacts ==
    /\ UNCHANGED <<assistant_vars, pod, llm, detector, wakeword>>
    /\ ctx.pc = "splitter" /\ ctx.op = "none"
    /\ ctx' = [ctx EXCEPT
                  !.op = "filter",
                  !.relevant_facts =
                      FilterFactsByExpertise(ctx.facts, ctx.expertise_areas)]

SplitterNext == FilterFacts

SpecSplitter == SplitterInit /\ [][SplitterNext]_vars

\* ------------------------- start_podcast: the context and the LLM sessions
\* The facts of the enriched context and the expertise areas of the speaker
\* when start_podcast has enriched the context (orchestrator.py:75-76);
\* participant_contexts holds the facts given to each participant and
\* prompts the facts in the system prompt of each participant's session.
SetupInit ==
    /\ AssistantIdle /\ pod = PodIdle
    /\ llm = LlmIdle /\ detector = DetectorIdle /\ wakeword = WakeIdle
    /\ ctx \in { [pc |-> "setup", op |-> "none", facts |-> f,
                   expertise_areas |-> x,
                   participant_contexts |->
                       [moderator |-> <<>>, speaker |-> <<>>],
                   prompts |-> [moderator |-> <<>>, speaker |-> <<>>]] :
                 f \in FactLists, x \in ExpertiseAreas }

\* _distribute_context (orchestrator.py:161-167):
\* split_context_for_participants (context_splitter.py:19-60) gives the
\* moderator the full list ("full_facts", context_splitter.py:76) and a
\* speaker the filtered one ("relevant_facts", context_splitter.py:96-117).
DistributeContext ==
    /\ UNCHANGED <<assistant_vars, pod, llm, detector, wakeword>>
    /\ ctx.pc = "setup" /\ ctx.op = "none"
    /\ ctx' = [ctx EXCEPT
                  !.op = "distributed",
                  !.participant_contexts =
                      [moderator |-> ctx.facts,
                       speaker |-> FilterFactsByExpertise(
                                       ctx.facts, ctx.expertise_areas)]]

\* ParticipantProfile.get_full_system_prompt (persona.py:48-82): the facts
\* the prompt lists, the first three of search_context['facts'] when the
\* profile uses the search context.
PromptFacts(search_facts, use_search_context) ==
    IF use_search_context /\ search_facts # <<>>
    THEN FirstFacts(search_facts, 3) ELSE <<>>

\* _create_llm_sessions (orchestrator.py:169-192): the participant's context
\* is looked up (line 173) and the prompt is built from the session's
\* enriched_context (lines 176-179) with the profile's default
\* use_search_context (persona.py:46).
CreateLlmSessions ==
    /\ UNCHANGED <<assistant_vars, pod, llm, detector, wakeword>>
    /\ ctx.pc = "setup" /\ ctx.op = "distributed"
    /\ ctx' = [ctx EXCEPT
                  !.op = "created",
                  !.prompts = [moderator |-> PromptFacts(ctx.facts, TRUE),
                               speaker |-> PromptFacts(ctx.facts, TRUE)]]

SetupNext == DistributeContext \/ CreateLlmSessions

SpecSetup == SetupInit /\ [][SetupNext]_vars

\* ======================================================== assistant claims
IsPrefix(p, q) == Len(p) <= Len(q) /\ SubSeq(q, 1, Len(p)) = p

\* C1: every thread that is about to write self.state holds the recording
\* lock: the timer thread before main.py:170 and the processing thread before
\* main.py:208 (the frame callback and _reset_to_listening run under it).
C1_AccessUnderLock ==
    /\ \A t \in TimerIds : timers[t] = "l170" => recording_lock = TimerThread(t)
    /\ \A w \in WorkerIds :
          workers[w].pc = "l208" => recording_lock = WorkerThread(w)

\* C2: for every entry into RECORDING at most one stop wins, so at most one
\* processing thread is dispatched for that recording.
C2_OneDispatchPerRecording == dispatched <= 1

\* A recording for which both the frame callback and its own timer dispatched.
C2_BothDispatched == dispatched = 2

\* C3: whenever the timer callback moves the machine from RECORDING to
\* TRANSCRIBING, the timer is the one armed on the most recent entry into
\* RECORDING.
C3_NoStaleTimerStop ==
    [][\A t \in TimerIds :
          (timers[t] = "l170" /\ timers'[t] = "l182" /\ state = RECORDING)
             => t = rec_count]_vars

\* The transitions of the single-user loop.
LoopTransitions ==
    { <<LISTENING, RECORDING>>, <<RECORDING, TRANSCRIBING>>,
      <<TRANSCRIBING, SYNTHESIZING>>, <<TRANSCRIBING, LISTENING>>,
      <<SYNTHESIZING, LISTENING>> }

\* C4: the state only ever changes along the transitions of the loop.
C4_OnlyLoopTransitions ==
    [][state' # state => <<state, state'>> \in LoopTransitions]_vars

EmptyCycle(r) ==
    \/ r.cycle = "empty_recording"
    \/ r.cycle = "transcribed" /\ Strip(r.text) = <<>>

\* C6: on an empty recording or an empty or blank transcript the synthesizer
\* is not invoked in that cycle and the worker takes the early reset, after
\* which the machine is LISTENING.
C6_EmptySkipsSynthesis ==
    /\ [](\A w \in WorkerIds :
            EmptyCycle(workers[w]) =>
               workers[w].synth = 0 /\ workers[w].pc \in {"l195", "l204", "l219"})
    /\ [][\A w \in WorkerIds :
            (workers[w].pc \in {"l195", "l204"} /\ w \in DOMAIN workers'
                /\ workers'[w].pc = "l219")
               => state' = LISTENING]_vars

\* A worker that got an empty transcript for a non-empty recording, did the
\* early reset and never called the synthesizer.
C6_Witness ==
    \E w \in WorkerIds :
       /\ workers[w].cycle = "transcribed" /\ workers[w].text = <<>>
       /\ workers[w].pc = "l219" /\ workers[w].synth = 0

\* C7: a wake trigger in LISTENING enters RECORDING once, seeding the buffer
\* with the non-empty snapshot; while RECORDING the buffer is that snapshot
\* followed by the frames delivered since, in arrival order; and so is the
\* audio a processing thread is about to hand to the transcriber.
C7_SnapshotPrefix ==
    /\ [](state = RECORDING =>
            /\ recording_buffer = expected
            /\ snapshot # <<>>
            /\ IsPrefix(snapshot, recording_buffer))
    /\ [](\A w \in WorkerIds :
            (workers[w].pc = "l193" /\ workers[w].audio # <<>>)
               => workers[w].audio = workers[w].sent)
    /\ [][(rec_count' # rec_count \/ (state # RECORDING /\ state' = RECORDING))
            => /\ state = LISTENING /\ state' = RECORDING
               /\ rec_count' = rec_count + 1
               /\ snapshot' = audio_buffer'
               /\ recording_buffer' = snapshot']_vars

\* A processing thread about to transcribe a snapshot followed by two frames.
C7_Witness ==
    \E w \in WorkerIds :
       /\ workers[w].pc = "l193"
       /\ Len(workers[w].audio) = BufferSize + 2
       /\ workers[w].audio = workers[w].sent

\* ========================================================== podcast claims
\* The transcript entries a discussion round added: those of round r that
\* belong neither to the opening nor to the closing.
RoundEntries(r) ==
    LET InRound(e) == e.round_number = r
                      /\ e.segment \notin {"opening", "closing"}
    IN  SelectSeq(pod.transcript, InRound)

\* Every call of _get_participant_response so far produced a reply.
NoTurnFailed == \A i \in DOMAIN pod.turns : pod.turns[i].replied

\* run_podcast returned True.
RunSucceeded == pod.pc = "returned" /\ pod.result = "true"

\* C8: among the entries a round adds to the transcript only the first is a
\* moderator utterance (no per-speaker question, no interjection between two
\* speakers), and every speaker has at most one entry.
C8_RoundShape ==
    \A r \in 1..MaxRounds :
       LET es == RoundEntries(r)
       IN  /\ \A i \in DOMAIN es : es[i].role = MODERATOR => i = 1
           /\ \A i, j \in DOMAIN es :
                 (i # j /\ es[i].role = SPEAKER /\ es[j].role = SPEAKER)
                    => es[i].participant_id # es[j].participant_id

\* A round in which the moderator spoke again after a speaker's reply.
C8_Interjection ==
    \E r \in 1..MaxRounds :
       LET es == RoundEntries(r)
       IN  \E i, j \in DOMAIN es :
              i < j /\ es[i].role = SPEAKER /\ es[j].segment = "transition"

\* C9: a run without turn failures, with max_rounds = 1, a moderator and two
\* speakers ends with exactly the five entries opening, round introduction,
\* first speaker's response, second speaker's response, closing.
C9_FiveEntries ==
    (RunSucceeded /\ NoTurnFailed /\ pod.max_rounds = 1 /\ pod.moderator
        /\ pod.speakers = 2)
       => /\ [i \in DOMAIN pod.transcript |-> pod.transcript[i].segment]
               = <<"opening", "round_intro", "response", "response", "closing">>
          /\ [i \in DOMAIN pod.transcript |-> pod.transcript[i].participant_id]
               = <<ModeratorId, ModeratorId, 1, 2, ModeratorId>>

\* The speakers whose response was asked for in round r, in the order asked.
SpeakersAsked(r) ==
    LET IsAsk(t) == t.segment = "response" /\ t.round_number = r
        asks == SelectSeq(pod.turns, IsAsk)
    IN  [i \in DOMAIN asks |-> asks[i].participant_id]

\* C10: a speaker's turn that yields no reply adds no transcript entry and
\* the round goes on with the next speaker; so when run_podcast has returned
\* True on a session with a moderator and speakers, every round up to
\* max_rounds was run, in each of them every speaker was asked in order, a
\* speaker has an entry in a round only if that turn got a reply, and the
\* closing turn was taken last.
C10_SkipsSilentSpeaker ==
    /\ [][(pod.pc = "response"
            /\ ~pod'.turns[Len(pod'.turns)].replied)
           => /\ pod'.transcript = pod.transcript
              /\ pod'.pc = IF pod.spk < pod.speakers THEN "question" ELSE "loop"
              /\ pod.spk < pod.speakers => pod'.spk = pod.spk + 1]_vars
    /\ []((RunSucceeded /\ pod.moderator /\ pod.speakers >= 1)
           => /\ pod.current_round = pod.max_rounds
              /\ \A r \in 1..pod.max_rounds :
                    SpeakersAsked(r) = [i \in 1..pod.speakers |-> i]
              /\ \A i \in DOMAIN pod.turns :
                    (pod.turns[i].segment = "response" /\ ~pod.turns[i].replied)
                       => \A k \in DOMAIN pod.transcript :
                             ~(/\ pod.transcript[k].segment = "response"
                               /\ pod.transcript[k].participant_id
                                     = pod.turns[i].participant_id
                               /\ pod.transcript[k].round_number
                                     = pod.turns[i].round_number)
              /\ pod.turns[Len(pod.turns)].segment = "closing")

\* A finished two-round podcast in which the first speaker, who has an LLM
\* session, gave no reply in round 1, and yet the second speaker replied in
\* round 1, the first speaker replied in round 2 and the closing was said.
C10_Witness ==
    /\ RunSucceeded /\ pod.max_rounds = 2 /\ pod.speakers = 2
    /\ 1 \in pod.llm_sessions
    /\ \E i \in DOMAIN pod.turns :
          /\ pod.turns[i].segment = "response" /\ pod.turns[i].participant_id = 1
          /\ pod.turns[i].round_number = 1 /\ ~pod.turns[i].replied
    /\ \E k \in DOMAIN pod.transcript :
          /\ pod.transcript[k].segment = "response"
          /\ pod.transcript[k].participant_id = 2
          /\ pod.transcript[k].round_number = 1
    /\ \E k \in DOMAIN pod.transcript :
          /\ pod.transcript[k].segment = "response"
          /\ pod.transcript[k].participant_id = 1
          /\ pod.transcript[k].round_number = 2
    /\ pod.transcript[Len(pod.transcript)].segment = "closing"

\* The current run_podcast call ended in its exception handler.
RunFailed ==
    /\ pod.pc = "returned" /\ pod.result = "false" /\ pod.has_session
    /\ pod.events # <<>> /\ pod.events[Len(pod.events)] = "error"

\* C11: when no participant is the moderator, the opening makes run_podcast
\* return False with the transcript as it was and one more event, an error;
\* such a session never has a transcript entry; no step that makes the result
\* False changes the transcript; and a save made after a failure writes out
\* exactly the session's transcript.
C11_NoModeratorFails ==
    /\ [][(pod.pc = "opening" /\ ~pod.moderator)
            => /\ pod'.pc = "returned" /\ pod'.result = "false"
               /\ pod'.transcript = pod.transcript
               /\ pod'.events = Append(pod.events, "error")]_vars
    /\ []((pod.has_session /\ ~pod.moderator) => pod.transcript = <<>>)
    /\ [][pod'.result = "false" => pod'.transcript = pod.transcript]_vars
    /\ [][(RunFailed /\ pod'.saved # pod.saved)
            => pod'.saved = [done |-> TRUE, transcript |-> pod.transcript]]_vars

\* A failed run of a session that has speakers but no moderator, saved
\* afterwards.
C11_Witness ==
    /\ RunFailed /\ ~pod.moderator /\ pod.speakers >= 1
    /\ pod.saved.done /\ pod.transcript = <<>>

\* C12: once a run has ended on an error the session is marked completed and
\* inactive, and from then on no transcript entry is added and no round is
\* started.
C12_FailedIsAbsorbing ==
    /\ [](RunFailed => (pod.is_completed /\ ~pod.is_active))
    /\ [][(pod.has_session /\ pod.events # <<>>
             /\ \E i \in DOMAIN pod.events : pod.events[i] = "error")
            => /\ pod'.transcript = pod.transcript
               /\ pod'.current_round = pod.current_round]_vars

\* A second run_podcast call on a session whose first run failed.
C12_Rerun == RunFailed /\ pod.runs = 2

\* ========================================================== session claims
\* The step is a call of the session method op.
IsCall(op) ==
    pod'.call.op = op /\ pod'.call.count = pod.call.count + 1

\* C13: current_round never exceeds max_rounds, and a start_new_round call
\* made when current_round has reached max_rounds returns false and changes
\* neither current_round nor the event log.
C13_RoundCap ==
    /\ [](pod.current_round <= pod.max_rounds)
    /\ [][(IsCall("start_new_round") /\ pod.current_round >= pod.max_rounds)
            => /\ ~pod'.call.ok
               /\ pod'.current_round = pod.current_round
               /\ pod'.events = pod.events]_vars

\* A start_new_round refused after two rounds were started.
C13_Witness ==
    /\ pod.call.op = "start_new_round" /\ ~pod.call.ok
    /\ pod.current_round = 2 /\ pod.max_rounds = 2
    /\ pod.call.count = 3

\* C14: advance_speaker on a non-empty queue moves the front to the back,
\* keeps the others in order, makes the new front the current speaker and
\* returns it; on an empty queue it returns nothing and changes nothing; and
\* after a multiple of the queue's length of calls the queue is the original
\* one.
C14_AdvanceRotates ==
    /\ [][IsCall("advance_speaker") =>
            LET q == pod.speaking_queue
                r == pod'.speaking_queue
            IN  IF q # <<>>
                THEN /\ Len(r) = Len(q)
                     /\ r[Len(r)] = q[1]
                     /\ \A i \in 1..(Len(q) - 1) : r[i] = q[i + 1]
                     /\ pod'.current_speaker = r[1]
                     /\ pod'.call.speaker = r[1]
                ELSE /\ r = q
                     /\ pod'.current_speaker = pod.current_speaker
                     /\ pod'.call.speaker = NoParticipant
                     /\ pod'.events = pod.events]_vars
    /\ []((pod.pc = "session" /\ pod.speaking_queue # <<>>
            /\ pod.call.advances % Len(pod.speaking_queue) = 0)
           => pod.speaking_queue = pod.call.queue0)

\* A queue of three participants after three advance_speaker calls.
C14_Witness ==
    /\ pod.pc = "session" /\ Len(pod.speaking_queue) = 3
    /\ pod.call.advances = 3 /\ pod.speaking_queue = pod.call.queue0

\* C15: on a session that was never activated and never completed,
\* can_continue called after start_new_round returns true exactly while
\* current_round is below max_rounds.
C15_CanContinueFresh ==
    (pod.pc = "session" /\ pod.call.op = "can_continue"
        /\ ~pod.is_active /\ ~pod.is_completed /\ pod.current_round >= 1)
       => (pod.call.ok <=> pod.current_round < pod.max_rounds)

\* C16: is_completed implies that is_active is false, and a complete_session
\* call sets is_completed, clears is_active and appends exactly one
\* session_complete event.
C16_CompletedNotActive ==
    /\ [](pod.pc = "session" => (pod.is_completed => ~pod.is_active))
    /\ [][IsCall("complete_session")
            => /\ pod'.is_completed /\ ~pod'.is_active
               /\ pod'.events = Append(pod.events, "session_complete")]_vars

\* A session completed after a round was started on it.
C16_Witness ==
    /\ pod.pc = "session" /\ pod.call.op = "complete_session"
    /\ pod.is_completed /\ ~pod.is_active
    /\ pod.events = <<"round_start", "session_complete">>

\* ====================================================== LLM session claims
\* The step is a call of send_message or of reset_conversation.
IsLlmCall(op) == llm'.op = op /\ llm'.count = llm.count + 1

\* C17: the history always starts with a system entry and has no other
\* system entry; a send leaves the old history as a prefix of the new one,
\* and only a reset makes the history lose an entry.
C17_OneSystemEntry ==
    /\ [](llm.pc = "llm" =>
            /\ llm.history # <<>>
            /\ llm.history[1].role = "system"
            /\ \A i \in 2..Len(llm.history) : llm.history[i].role # "system")
    /\ [][IsLlmCall("send") => IsPrefix(llm.history, llm'.history)]_vars
    /\ [][~IsPrefix(llm.history, llm'.history) => IsLlmCall("reset")]_vars

\* A history that was reset to a new prompt and then grew by a full exchange.
C17_Witness ==
    /\ llm.pc = "llm" /\ Len(llm.history) = 3
    /\ llm.history[1] = SystemEntry(<<"p">>)
    /\ llm.history[3].role = "assistant"

\* C18: when the backend fails during a send, the send returns None and the
\* history is the previous one plus the new user entry; the next send of a
\* non-blank message then gives the backend a history whose last two entries
\* are both user entries.
C18_FailedSendKeepsUserEntry ==
    /\ [][(IsLlmCall("send") /\ llm'.failed)
            => /\ llm'.ret = None
               /\ Len(llm'.history) = Len(llm.history) + 1
               /\ IsPrefix(llm.history, llm'.history)
               /\ llm'.history[Len(llm'.history)].role = "user"]_vars
    /\ [][(llm.op = "send" /\ llm.failed /\ IsLlmCall("send")
             /\ llm'.sent # <<>>)
            => /\ Len(llm'.sent) >= 3
               /\ llm'.sent[Len(llm'.sent)].role = "user"
               /\ llm'.sent[Len(llm'.sent) - 1].role = "user"]_vars

\* A send that succeeded right after a failed one: the history holds two
\* user entries in a row, then the answer.
C18_Witness ==
    /\ llm.pc = "llm" /\ llm.op = "send" /\ ~llm.failed
    /\ Len(llm.history) = 4
    /\ llm.history[2].role = "user" /\ llm.history[3].role = "user"
    /\ llm.history[4].role = "assistant"

\* C19: a reset without an argument leaves exactly the system entry the
\* history began with, and a reset with an argument p leaves exactly one
\* system entry whose content is p.
C19_ResetLeavesSystemEntry ==
    [][IsLlmCall("reset")
        => IF llm'.arg.ok
           THEN llm'.history = << SystemEntry(llm'.arg.text) >>
           ELSE llm'.history = << llm.history[1] >>]_vars

\* A reset called with the empty string after an exchange.
C19_EmptyPrompt ==
    /\ llm.pc = "llm" /\ llm.op = "reset" /\ llm.arg = Some(<<>>)
    /\ llm.count >= 2 /\ llm.history = << SystemEntry(<<"s">>) >>

\* =================================================== pause detector claims
\* C20: a call of should_stop_recording whose recording_duration is below
\* min_recording_duration returns False, whatever the energy of the frame
\* and whatever silence has been counted.
C20_NoStopBeforeMinimum ==
    [][(detector'.op = "should_stop" /\ detector'.frames = detector.frames + 1
         /\ detector'.recording_duration < MinRecordingDuration)
        => detector'.ret = FALSE]_vars

\* A calibrated, enabled detector that has counted a full pause of silence
\* and is asked again with a duration below the minimum.
C20_Witness ==
    /\ detector.pc = "detector" /\ detector.pause_detection_enabled
    /\ detector.op = "should_stop"
    /\ detector.recording_duration < MinRecordingDuration
    /\ detector.noise_level.ok
    /\ detector.silence_chunks >= PauseThreshold * SamplesPerSecond
    /\ ~detector.ret

\* The number of silence-classified frames at the end of a classification
\* history (TRUE = voice).
RECURSIVE TrailingSilence(_)
TrailingSilence(h) ==
    IF h = <<>> \/ h[Len(h)] THEN 0
    ELSE 1 + TrailingSilence(SubSeq(h, 1, Len(h) - 1))

\* C21: with pause detection enabled, a call of should_stop_recording
\* returns True exactly when the frame is evaluated (its duration is not
\* below min_recording_duration) and the run of consecutive
\* silence-classified evaluated frames ending at it is at least
\* pause_threshold * samples_per_second long.
C21_StopExactlyAtThreshold ==
    [][(detector'.op = "should_stop" /\ detector'.frames = detector.frames + 1
         /\ detector.pause_detection_enabled)
        => detector'.ret =
             /\ detector'.recording_duration >= MinRecordingDuration
             /\ Len(detector'.classified) = Len(detector.classified) + 1
             /\ TrailingSilence(detector'.classified)
                  >= PauseThreshold * SamplesPerSecond]_vars

\* Ten calibration frames, then five silent frames, on a fresh detector:
\* the fifth one is the first to return True.
C21_Witness ==
    /\ detector.pc = "detector" /\ detector.pause_detection_enabled
    /\ detector.op = "should_stop" /\ detector.frames = 15
    /\ Len(detector.classified) = 15
    /\ TrailingSilence(detector.classified) = 5
    /\ detector.ret

\* ================================================= wake word buffer claims
\* C22: the buffer never holds more than buffer_size samples, and it holds
\* exactly the most recently appended samples, in their order of arrival.
C22_BufferHoldsNewest ==
    wakeword.pc = "wake" =>
        LET held == Len(wakeword.audio_buffer)
        IN  /\ held <= wakeword.buffer_size
            /\ held = IF wakeword.appended < wakeword.buffer_size
                      THEN wakeword.appended ELSE wakeword.buffer_size
            /\ \A i \in 1..held :
                  wakeword.audio_buffer[i] = wakeword.appended - held + i - 1

\* A buffer of two samples that has been given five: it holds the last two.
C22_Witness ==
    /\ wakeword.pc = "wake" /\ wakeword.buffer_size = 2
    /\ wakeword.appended = 5 /\ wakeword.audio_buffer = <<3, 4>>

\* C23: the buffer holds the most recent audio the source delivered: its
\* samples are the last ones delivered, newest last, in whatever state of
\* the assistant they arrived.
C23_BufferIsMostRecentAudio ==
    \A i \in 1..Len(audio_buffer) :
        audio_buffer[Len(audio_buffer) - i + 1]
            = (next_sample - i) % NumSampleValues

\* A frame delivered during RECORDING went to the recording only.
C23_FrameWhileRecording ==
    /\ state = RECORDING /\ Len(recording_buffer) > Len(snapshot)
    /\ audio_buffer # <<>>
    /\ audio_buffer[Len(audio_buffer)] # (next_sample - 1) % NumSampleValues

\* C24: detect_wake_word reports a trigger exactly when the engine
\* finalized a non-empty fragment and some configured keyword occurs
\* somewhere in its lower-cased text, whatever surrounds the occurrence.
C24_TriggerIffSubstring ==
    [][(wakeword'.op = "detect" /\ wakeword'.count = wakeword.count + 1)
        => wakeword'.detected =
             /\ wakeword.recognizer
             /\ wakeword'.outcome.kind = "final"
             /\ wakeword'.outcome.text # <<>>
             /\ \E n \in 1..Len(wakeword.keywords) :
                  \E a \in 1..Len(wakeword'.outcome.text) :
                    \E b \in a..Len(wakeword'.outcome.text) :
                      SubSeq(Lower(wakeword'.outcome.text), a, b)
                        = wakeword.keywords[n]]_vars

\* The keyword "b" triggers on the fragment "AB", where it is not a word of
\* its own.
C24_Witness ==
    /\ wakeword.pc = "wake" /\ wakeword.op = "detect" /\ wakeword.detected
    /\ wakeword.keywords = << <<"b">> >>
    /\ wakeword.outcome.text = <<"A", "B">>
    /\ wakeword.text = <<"a", "b">>

\* ================================================ podcast synthesis claims
\* C25: in text format the TTS engine is never invoked; in audio format only
\* synthesize_only is, in both format only synthesize_and_play is; and no
\* utterance of the transcript has more than one invocation.
C25_SynthesisFollowsFormat ==
    pod.pc \notin {"off", "session"} =>
        /\ pod.output_format = "text" => pod.synth = <<>>
        /\ pod.output_format = "audio" =>
              \A i \in DOMAIN pod.synth : pod.synth[i].op = "synthesize_only"
        /\ pod.output_format = "both" =>
              \A i \in DOMAIN pod.synth :
                  pod.synth[i].op = "synthesize_and_play"
        /\ \A i \in DOMAIN pod.synth :
              /\ pod.synth[i].entry \in DOMAIN pod.transcript
              /\ \A j \in DOMAIN pod.synth :
                    pod.synth[i].entry = pod.synth[j].entry => i = j

\* A finished podcast in audio format whose utterances were all synthesized,
\* one of them without a result.
C25_Witness ==
    /\ pod.pc = "returned" /\ pod.result = "true"
    /\ pod.output_format = "audio"
    /\ Len(pod.transcript) >= 5 /\ Len(pod.synth) = Len(pod.transcript)
    /\ pod.synth_failed = 1
    /\ \E k \in DOMAIN pod.transcript : ~pod.transcript[k].audio_file

\* A finished podcast in text format.
C25_TextWitness ==
    /\ pod.pc = "returned" /\ pod.result = "true"
    /\ pod.output_format = "text" /\ Len(pod.transcript) >= 5

\* ================================================== podcast context claims
\* C26: enrich_context never raises and always returns a context; when the
\* provider is unavailable or its search raised, the context is the
\* fallback context of the topic: provider name "fallback", the topic
\* asked for, and a non-empty fact list.
C26_EnrichNeverRaises ==
    /\ [](ctx.pc = "enricher" => ~ctx.context.raised)
    /\ [][(ctx'.op = "enrich" /\ (~ctx'.available \/ ctx'.outcome.raised))
            => /\ ctx'.context.search_provider = "fallback"
               /\ ctx'.context.facts # <<>>
               /\ \E topic \in Topics :
                     /\ ctx'.context.topic = topic
                     /\ ctx'.context.facts[1] = Fact("topical", topic, 0)]_vars

\* The search of an available provider raised, and the fallback context of
\* topic t2 came back.
C26_Witness ==
    /\ ctx.pc = "enricher" /\ ctx.op = "enrich"
    /\ ctx.available /\ ctx.outcome.raised
    /\ ctx.context.topic = "t2" /\ ctx.context.search_provider = "fallback"

\* The positions of the source list whose fact has a keyword of the speaker.
Matching == { n \in 1..Len(ctx.facts) :
                IsRelevant(ctx.facts[n], ctx.expertise_areas) }

\* C27: the facts a speaker gets are at most four, each one is a fact of
\* the source list, and they are never more than the source list has; when
\* fewer than two source facts match the speaker's keywords, the matching
\* ones come first and other source facts follow until there are three or
\* the source list has no other fact left.
C27_FactsBounded ==
    (ctx.pc = "splitter" /\ ctx.op = "filter") =>
        /\ Len(ctx.relevant_facts) <= 4
        /\ Len(ctx.relevant_facts) <= Len(ctx.facts)
        /\ \A i \in 1..Len(ctx.relevant_facts) :
              \E n \in 1..Len(ctx.facts) :
                  ctx.facts[n] = ctx.relevant_facts[i]
        /\ (ctx.expertise_areas # <<>> /\ Cardinality(Matching) < 2) =>
              /\ Len(ctx.relevant_facts) <= 3
              /\ \A n \in Matching : ctx.relevant_facts[1] = ctx.facts[n]
              /\ Len(ctx.relevant_facts) < 3 =>
                    \A n \in 1..Len(ctx.facts) :
                        \E i \in 1..Len(ctx.relevant_facts) :
                            ctx.relevant_facts[i] = ctx.facts[n]

\* Five source facts that all match: the speaker gets the first four.
C27_Witness ==
    /\ ctx.pc = "splitter" /\ ctx.op = "filter"
    /\ Len(ctx.facts) = 5 /\ Cardinality(Matching) = 5
    /\ ctx.relevant_facts = SubSeq(ctx.facts, 1, 4)

\* One matching fact among five: it is padded with two others.
C27_PaddedWitness ==
    /\ ctx.pc = "splitter" /\ ctx.op = "filter"
    /\ ctx.expertise_areas # <<>>
    /\ Len(ctx.facts) = 5 /\ Matching = {4}
    /\ Len(ctx.relevant_facts) = 3
    /\ ctx.relevant_facts[1] = ctx.facts[4]

\* ================================================= recording stop claims
\* The step is a frame callback that stops the recording.
CallbackStops ==
    /\ frame_ready /\ ~frame_ready'
    /\ state = RECORDING /\ state' = TRANSCRIBING

\* The step is the timer thread's write that stops the recording.
TimerStops ==
    /\ state = RECORDING /\ state' = TRANSCRIBING
    /\ \E t \in TimerIds : timers[t] = "l170" /\ timers'[t] = "l182"

\* C28: when the frame callback stops a recording (pause policy or inline
\* elapsed-time check), no deadline timer is left armed by that stop.
C28_StopCancelsTimer ==
    [][CallbackStops => \A t \in TimerIds : timers'[t] # "waiting"]_vars

\* The pause policy stopped the recording and its timer is still armed.
C28_TimerStillArmed ==
    /\ state = TRANSCRIBING /\ stop_reason = "pause"
    /\ recording_timer # NoTimer /\ timers[recording_timer] = "waiting"

\* C29: after every RECORDING -> TRANSCRIBING transition the stored
\* stop_reason names the trigger: "pause" or "timeout" when the frame
\* callback stopped the recording ("timeout" only at the deadline),
\* "timeout" when the timer did.
C29_StopReasonNamesTrigger ==
    /\ [][CallbackStops
            => /\ stop_reason' \in {"pause", "timeout"}
               /\ stop_reason' = "timeout"
                    => recording_start_time >= MaxRecordingDuration]_vars
    /\ [][TimerStops => stop_reason' = "timeout"]_vars

\* The timer stopped the recording and the stored tag is still unset.
C29_TimerStopUntagged ==
    /\ state = TRANSCRIBING /\ stop_reason = "none"
    /\ \E t \in TimerIds : timers[t] = "l182"

\* C30: a machine in RECORDING always eventually leaves RECORDING, with no
\* help from the pause policy or the audio source; and a frame delivered at
\* or after max_recording_duration stops the recording on that frame.
C30_RecordingEnds ==
    /\ (state = RECORDING) ~> (state # RECORDING)
    /\ [][(frame_ready /\ ~frame_ready' /\ state = RECORDING
            /\ recording_start_time >= MaxRecordingDuration)
           => state' = TRANSCRIBING]_vars

\* The timer stopped a recording that got no frame after the trigger.
C30_Witness ==
    /\ state = TRANSCRIBING
    /\ recording_timer # NoTimer /\ timers[recording_timer] = "l182"
    /\ recording_buffer = snapshot

\* ================================================= lock and reset claims
\* C31: the recording lock is never held by a thread that is in the
\* transcriber or the synthesizer: its only holder outside the frame
\* callback is a worker inside _reset_to_listening; and a frame callback
\* that runs during TRANSCRIBING or SYNTHESIZING changes neither the state
\* nor the recording buffer.
C31_LockNotHeldAcrossWork ==
    /\ [](\/ recording_lock = Free
          \/ \E w \in WorkerIds :
                /\ recording_lock = WorkerThread(w)
                /\ workers[w].pc \in {"l195", "l204", "l219"})
    /\ [][(frame_ready /\ ~frame_ready'
            /\ state \in {TRANSCRIBING, SYNTHESIZING})
           => /\ state' = state
              /\ recording_buffer' = recording_buffer]_vars

\* A frame was delivered while the transcriber had the recording: the
\* newest sample of the source is not in the recording buffer.
C31_Witness ==
    /\ state = TRANSCRIBING /\ ~frame_ready /\ recording_lock = Free
    /\ \E w \in WorkerIds :
          workers[w].pc = "l193" /\ Len(workers[w].audio) > 0
    /\ recording_buffer # <<>>
    /\ recording_buffer[Len(recording_buffer)]
          # (next_sample - 1) % NumSampleValues

\* The detector as reset() leaves it: no noise floor, no calibration sample,
\* no silent frame and no frame counted.
FreshGate(d) ==
    /\ ~d.noise_level.ok /\ d.calibration_samples.len = 0
    /\ d.silence_chunks = 0 /\ d.total_chunks = 0

\* C32: every entry into RECORDING resets the pause detector, and until the
\* first frame of that recording has been handled the detector has no noise
\* floor and its silence and frame counts are zero; during the recording it
\* has counted no more frames than that recording received.
C32_RecordingStartsWithFreshGate ==
    /\ [][(state # RECORDING /\ state' = RECORDING) => FreshGate(detector')]_vars
    /\ [](state = RECORDING =>
            /\ expected = snapshot => FreshGate(detector)
            /\ detector.total_chunks <= Len(expected) - Len(snapshot)
            /\ detector.noise_level.ok =>
                  detector.total_chunks >= CalibrationChunks)

\* The second recording is about to receive its first frame while a
\* processing thread of the first recording is still alive.
C32_Witness ==
    /\ state = RECORDING /\ rec_count = 2 /\ frame_ready
    /\ expected = snapshot /\ FreshGate(detector)
    /\ \E w \in WorkerIds : Len(workers[w].sent) > Len(workers[w].audio) - 1
                             /\ Len(workers[w].audio) >= 2

\* ================================================== noise calibration claim
\* The step hands a frame to is_voice_detected.
Classifies == Len(detector'.classified) = Len(detector.classified) + 1

\* C33: after a reset, each of the first ten frames the detector is asked to
\* classify is classified as voice and adds its energy to the calibration
\* samples; there is no noise floor before the tenth, the tenth sets it from
\* the ten energies collected, and once set the noise floor changes only
\* by a reset.
C33_CalibratedOnceOnTenthFrame ==
    /\ [](detector.pc = "detector" =>
            detector.noise_level.ok =
               (Len(detector.classified) >= CalibrationChunks))
    /\ [][(Classifies /\ Len(detector'.classified) <= CalibrationChunks)
           => /\ detector'.classified[Len(detector'.classified)]
              /\ ~detector.noise_level.ok
              /\ detector'.calibration_samples.len = Len(detector'.classified)
              /\ detector'.calibration_samples.sum =
                    detector.calibration_samples.sum + detector'.energy
              /\ detector'.noise_level.ok =>
                    detector'.noise_level.sum =
                       detector'.calibration_samples.sum]_vars
    /\ [][(detector.pc = "detector" /\ detector.noise_level.ok
            /\ detector'.op # "reset")
           => detector'.noise_level = detector.noise_level]_vars

\* Twelve frames classified since the reset: the noise floor is the one the
\* first ten energies gave, and a later frame was classified as silence.
C33_Witness ==
    /\ detector.pc = "detector" /\ detector.noise_level.ok
    /\ Len(detector.classified) = CalibrationChunks + 2
    /\ detector.noise_level.sum = 3
    /\ ~detector.classified[CalibrationChunks + 1]
    /\ detector.classified[CalibrationChunks + 2]

\* ================================================== podcast prompt claims
\* C34: within a round, every speaker's prompt quotes the same moderator
\* utterance, that round's introduction.
C34_SpeakersQuoteRoundIntro ==
    \A i \in DOMAIN pod.turns :
       pod.turns[i].segment = "response" =>
          LET q == pod.turns[i].quoted
          IN  /\ q # 0
              /\ pod.transcript[q].segment = "round_intro"
              /\ pod.transcript[q].round_number = pod.turns[i].round_number

\* The two speakers of a round were prompted with two different moderator
\* utterances, each with the question addressed to them.
C34_Witness ==
    \E i, j \in DOMAIN pod.turns :
       /\ i < j
       /\ pod.turns[i].segment = "response" /\ pod.turns[j].segment = "response"
       /\ pod.turns[i].round_number = pod.turns[j].round_number
       /\ pod.turns[i].quoted # 0 /\ pod.turns[j].quoted # 0
       /\ pod.turns[i].quoted # pod.turns[j].quoted
       /\ pod.transcript[pod.turns[i].quoted].segment = "question"
       /\ pod.transcript[pod.turns[j].quoted].segment = "question"

\* C35: the transcript only grows by appending; an entry that was in the
\* transcript before a step is the same after it, so a synthesis changes no
\* entry but the one just appended; an entry has an audio file only if the
\* synthesizer was invoked for that entry, and in text mode no entry has one.
C35_TranscriptAppendOnly ==
    /\ [][/\ Len(pod'.transcript) >= Len(pod.transcript)
           /\ Len(pod'.transcript) <= Len(pod.transcript) + 1
           /\ \A i \in DOMAIN pod.transcript :
                 pod'.transcript[i] = pod.transcript[i]]_vars
    /\ [](\A i \in DOMAIN pod.transcript :
            pod.transcript[i].audio_file =>
               /\ pod.output_format # "text"
               /\ \E k \in DOMAIN pod.synth : pod.synth[k].entry = i)

\* The synthesis of the first utterance failed and that of the second
\* succeeded: the first entry still has no audio file, the second has one.
C35_Witness ==
    /\ Len(pod.transcript) >= 2
    /\ ~pod.transcript[1].audio_file /\ pod.transcript[2].audio_file
    /\ \E k \in DOMAIN pod.synth : pod.synth[k].entry = 1

\* Every fact of the list slice is in the list prompt.
HoldsSlice(prompt, slice) ==
    \A i \in DOMAIN slice : \E k \in DOMAIN prompt : prompt[k] = slice[i]

\* C36: the system prompt of each participant's session contains that
\* participant's own slice of the facts: the speaker's filtered list, the
\* moderator's full list.
C36_PromptHoldsOwnSlice ==
    (ctx.pc = "setup" /\ ctx.op = "created") =>
        /\ HoldsSlice(ctx.prompts.moderator, ctx.participant_contexts.moderator)
        /\ HoldsSlice(ctx.prompts.speaker, ctx.participant_contexts.speaker)

\* The speaker's slice differs from the moderator's and holds a fact that
\* is not among the first three, yet both prompts list the same facts.
C36_Witness ==
    /\ ctx.pc = "setup" /\ ctx.op = "created"
    /\ ctx.participant_contexts.speaker # ctx.participant_contexts.moderator
    /\ ~HoldsSlice(ctx.prompts.speaker, ctx.participant_contexts.speaker)
    /\ ctx.prompts.speaker = ctx.prompts.moderator

\* =============================================== recording lifetime claims
\* C37: a recording is never discarded: whenever the machine leaves
\* RECORDING it enters TRANSCRIBING, with the buffer of that recording (the
\* snapshot and every frame delivered to it), in every interleaving with
\* the threads of an earlier cycle.
C37_RecordingNeverDiscarded ==
    [][(state = RECORDING /\ state' # RECORDING)
        => /\ state' = TRANSCRIBING
           /\ recording_buffer' = expected'
           /\ recording_buffer' # <<>>]_vars

\* The second recording is over and the machine listens again, although no
\* processing thread was ever started for it.
C37_Discarded ==
    /\ rec_count = 2 /\ state = LISTENING /\ dispatched = 0
    /\ timers[2] = "done" /\ recording_buffer = <<>>

\* C38: no thread blocks forever on the recording lock: a timer thread
\* never takes it, whoever holds it can finish and release it without any
\* step of another thread, a held lock is always released, and every
\* processing thread gets through its resets and ends.
C38_NoThreadBlocksForever ==
    /\ [](recording_lock.kind \in {"free", "worker"})
    /\ [](recording_lock # Free =>
            ENABLED (\E w \in WorkerIds : WorkerResetBody(w)))
    /\ (recording_lock # Free) ~> (recording_lock = Free)
    /\ (workers # <<>>) ~> (workers = <<>>)

\* A processing thread holds the lock inside _reset_to_listening while
\* another one waits at its own reset and the device has a frame to deliver.
C38_Witness ==
    /\ frame_ready
    /\ \E w, v \in WorkerIds :
          /\ w # v /\ recording_lock = WorkerThread(w)
          /\ workers[v].pc \in {"l195", "l204", "l219"}

\* C39: whenever the recording lock is free and the state is LISTENING, the
\* recording buffer is empty, the recording start time is absent and no
\* deadline-timer handle is stored.
C39_ListeningIsClean ==
    (recording_lock = Free /\ state = LISTENING) =>
        /\ recording_buffer = <<>>
        /\ recording_start_time = NoStartTime
        /\ recording_timer = NoTimer

\* A completed cycle: the machine listens again after a recording, with the
\* lock free and nothing left of the recording.
C39_Witness ==
    /\ recording_lock = Free /\ state = LISTENING /\ rec_count >= 1
    /\ workers = <<>>
    /\ recording_buffer = <<>> /\ recording_start_time = NoStartTime
    /\ recording_timer = NoTimer

\* ==================================================== podcast rerun claim
\* C40: run_podcast on an orchestrator without a session, or with a session
\* that is not active, returns False and changes nothing of the session: no
\* transcript entry, no round, no event; so it is after a completed run.
C40_InactiveRunChangesNothing ==
    [][(pod.pc \in {"idle", "returned"} /\ pod'.runs = pod.runs + 1
         /\ (~pod.has_session \/ ~pod.is_active))
        => pod' = [pod EXCEPT !.pc = "returned", !.result = "false",
                              !.runs = @ + 1]]_vars

\* A second run_podcast after a run that completed: it returned False and
\* the last event is still the completion of the first run.
C40_Witness ==
    /\ pod.pc = "returned" /\ pod.runs = 2 /\ pod.result = "false"
    /\ pod.is_completed /\ ~pod.is_active
    /\ pod.transcript # <<>>
    /\ pod.events[Len(pod.events)] = "session_complete"

====
